---- MODULE Spec2Model ----
(***************************************************************************)
(* The attention blocks of src/model/attention.py                          *)
(* (ScaledDotProductAttention, MultiHeadAttention, ChannelGate,            *)
(* SpatialGate, CCBAM, Self_Attn) as state machines: a block is            *)
(* constructed, switched between training and evaluation mode, and its     *)
(* forward is called.                                                      *)
(*                                                                         *)
(* Two layers model the same code.  The shape layer (..._shape) follows    *)
(* the sizes of the tensors through every call of a forward, and yields    *)
(* ShapeErr where the tensor library raises.  The value layer (further     *)
(* down) computes the entries.                                             *)
(***************************************************************************)
EXTENDS Integers, Sequences, FiniteSets, TLC

VARIABLES inp, cfg, blk, arg, ret, op
vars == <<inp, cfg, blk, arg, ret, op>>

\* ------------------------------------------------------------------------
\* Bounds of the shape layer
\* ------------------------------------------------------------------------
MaxB == 2
MaxGate == 3
MaxInChannels == 9
MaxH == 2
MaxW == 2
MaxL == 2
MaxDModel == 6
MaxHeads == 3
MaxRatio == 2
MaxPools == 2

\* Bounds of the value layer
MaxVal == 2
MaxSeed == 2
MaskBits == 3
MaxMaskSeed == 3
DropBits == 2
MaxDropSeed == 1
MaxVB == 2
MaxVModel == 4
MaxVHeads == 2
MaxVL == 2
MaxDim == 2
MaxSteps == 1
MaxVGate == 2
MaxCalls == 1

\* Bounds of the training loop
MaxEpochs == 4
MaxStartEpoch == 1
MaxPESQ == 2

\* ------------------------------------------------------------------------
\* Sequences of numbers
\* ------------------------------------------------------------------------
RECURSIVE Prod(_)
Prod(s) == IF s = <<>> THEN 1 ELSE Head(s) * Prod(Tail(s))

RECURSIVE Sum(_)
Sum(s) == IF s = <<>> THEN 0 ELSE Head(s) + Sum(Tail(s))

Max2(a, b) == IF a >= b THEN a ELSE b
Min2(a, b) == IF a <= b THEN a ELSE b

\* ------------------------------------------------------------------------
\* Shapes.  A shape is a sequence of sizes; ShapeErr stands for the
\* exception the tensor library raises on a size mismatch.
\* ------------------------------------------------------------------------
ShapeErr == <<-1>>
IsErr(s) == s = ShapeErr

\* x.view(target): target holds at most one -1, inferred from the number of
\* elements; the library refuses an ambiguous or non-dividing -1.
ViewShape(s, target) ==
    IF IsErr(s) THEN ShapeErr
    ELSE LET numel == Prod(s)
             holes == {i \in DOMAIN target : target[i] = -1}
             known == Prod([i \in DOMAIN target |->
                              IF target[i] = -1 THEN 1 ELSE target[i]])
         IN  IF \E i \in DOMAIN target : target[i] < -1 THEN ShapeErr
             ELSE IF holes = {}
                  THEN IF known = numel THEN target ELSE ShapeErr
             ELSE IF Cardinality(holes) > 1 \/ known = 0 THEN ShapeErr
             ELSE IF numel % known # 0 THEN ShapeErr
             ELSE [i \in DOMAIN target |->
                     IF target[i] = -1 THEN numel \div known ELSE target[i]]

\* x.permute(perm): perm names the source axes, counted from 0 as in the code.
PermuteShape(s, perm) ==
    IF IsErr(s) \/ Len(perm) # Len(s) THEN ShapeErr
    ELSE [i \in DOMAIN perm |-> s[perm[i] + 1]]

\* torch.bmm(a, b): [n,p,m] x [n,m,q] -> [n,p,q]
BmmShape(a, b) ==
    IF IsErr(a) \/ IsErr(b) \/ Len(a) # 3 \/ Len(b) # 3 THEN ShapeErr
    ELSE IF a[1] # b[1] \/ a[3] # b[2] THEN ShapeErr
    ELSE <<a[1], a[2], b[3]>>

\* x.transpose(1, 2) of a 3-d tensor
Transpose12Shape(s) ==
    IF IsErr(s) \/ Len(s) # 3 THEN ShapeErr ELSE <<s[1], s[3], s[2]>>

\* Whether a tensor of shape m broadcasts to shape s (sizes aligned at the
\* right, each equal or 1).
Broadcastable(m, s) ==
    /\ Len(m) <= Len(s)
    /\ \A i \in DOMAIN m :
         LET j == i + (Len(s) - Len(m)) IN m[i] = s[j] \/ m[i] = 1

\* score.masked_fill_(mask, value): in place, so the mask must broadcast to
\* the score.
MaskedFillShape(s, m) ==
    IF IsErr(s) \/ IsErr(m) THEN ShapeErr
    ELSE IF Broadcastable(m, s) THEN s ELSE ShapeErr

\* mask.repeat(n, 1, 1) of a 3-d mask
Repeat3Shape(m, n) ==
    IF IsErr(m) \/ Len(m) # 3 THEN ShapeErr ELSE <<n * m[1], m[2], m[3]>>

\* a * b with b of the same shape as a, or broadcast to it
MulShape(a, b) ==
    IF IsErr(a) \/ IsErr(b) THEN ShapeErr
    ELSE IF Broadcastable(b, a) THEN a ELSE ShapeErr

\* nn.Linear(in_features, out_features) applied to [..., in_features]
LinearShape(lin, s) ==
    IF IsErr(s) \/ Len(s) = 0 THEN ShapeErr
    ELSE IF s[Len(s)] # lin.in_features THEN ShapeErr
    ELSE [i \in DOMAIN s |-> IF i = Len(s) THEN lin.out_features ELSE s[i]]

\* The output length of a convolution or pooling window along one axis.
ConvOut(n, kernel, stride, padding) ==
    IF n + 2 * padding < kernel THEN -1
    ELSE ((n + 2 * padding - (kernel - 1) - 1) \div stride) + 1

\* nn.Conv2d applied to [B, C, H, W] (dilation 1, groups 1).  The library
\* refuses a weight with fewer output channels than groups.
Conv2dShape(conv, s) ==
    IF IsErr(s) \/ Len(s) # 4 THEN ShapeErr
    ELSE IF s[2] # conv.in_channels \/ conv.out_channels < 1 THEN ShapeErr
    ELSE LET h == ConvOut(s[3], conv.kernel_size, conv.stride, conv.padding)
             w == ConvOut(s[4], conv.kernel_size, conv.stride, conv.padding)
         IN  IF h < 1 \/ w < 1 THEN ShapeErr
             ELSE <<s[1], conv.out_channels, h, w>>

\* nn.BatchNorm2d applied to [B, C, H, W]: in training mode the batch
\* statistics need more than one value per channel.
BatchNorm2dShape(bn, s, training) ==
    IF IsErr(s) \/ Len(s) # 4 THEN ShapeErr
    ELSE IF s[2] # bn.num_features THEN ShapeErr
    ELSE IF training /\ s[1] * s[3] * s[4] <= 1 THEN ShapeErr
    ELSE s

\* F.avg_pool2d / F.max_pool2d / F.lp_pool2d with kernel and stride (H, W)
Pool2dShape(s) ==
    IF IsErr(s) \/ Len(s) # 4 THEN ShapeErr
    ELSE IF s[3] < 1 \/ s[4] < 1 THEN ShapeErr
    ELSE <<s[1], s[2], ConvOut(s[3], s[3], s[3], 0), ConvOut(s[4], s[4], s[4], 0)>>

\* ------------------------------------------------------------------------
\* Construction.  A constructor yields the block (ok = TRUE), born in
\* training mode as every nn.Module is, or the exception it raised
\* (ok = FALSE) with the sub-modules created before the raise.
\* ------------------------------------------------------------------------
Raised(kind, error) ==
    [kind |-> kind, ok |-> FALSE, error |-> error, created |-> <<>>]

\* nn.Linear(in_features, out_features): a negative size cannot be allocated.
Linear_init(in_features, out_features) ==
    [in_features |-> in_features, out_features |-> out_features,
     ok |-> in_features >= 0 /\ out_features >= 0]

\* nn.Conv2d(in_channels, out_channels, kernel_size, stride, padding)
Conv2d_init(in_channels, out_channels, kernel_size, stride, padding) ==
    [in_channels |-> in_channels, out_channels |-> out_channels,
     kernel_size |-> kernel_size, stride |-> stride, padding |-> padding]

ScaledDotProductAttention_init(dim) ==
    [kind |-> "ScaledDotProductAttention", ok |-> TRUE, training |-> TRUE,
     dim |-> dim]

\* The same constructor without its assert (what a slip, or running with
\* asserts stripped, would leave).
MultiHeadAttention_init_noassert(d_model, n_heads) ==
    IF n_heads = 0 THEN Raised("MultiHeadAttention", "ZeroDivisionError")
    ELSE LET attn_dim == d_model \div n_heads
         IN  [kind |-> "MultiHeadAttention", ok |-> TRUE, training |-> TRUE,
              d_model |-> d_model, attn_dim |-> attn_dim, n_heads |-> n_heads,
              Linear_Q |-> Linear_init(d_model, attn_dim * n_heads),
              Linear_K |-> Linear_init(d_model, attn_dim * n_heads),
              Linear_V |-> Linear_init(d_model, attn_dim * n_heads),
              scaled_dot_attn |-> ScaledDotProductAttention_init(attn_dim),
              created |-> <<"Linear_Q", "Linear_K", "Linear_V", "scaled_dot_attn">>]

\* MultiHeadAttention.__init__: the assert comes first; d_model % 0 raises
\* before the assert can.
MultiHeadAttention_init(d_model, n_heads) ==
    IF n_heads = 0 THEN Raised("MultiHeadAttention", "ZeroDivisionError")
    ELSE IF d_model % n_heads # 0
         THEN Raised("MultiHeadAttention", "AssertionError")
    ELSE LET attn_dim == d_model \div n_heads
         IN  [kind |-> "MultiHeadAttention", ok |-> TRUE, training |-> TRUE,
              d_model |-> d_model, attn_dim |-> attn_dim, n_heads |-> n_heads,
              Linear_Q |-> Linear_init(d_model, attn_dim * n_heads),
              Linear_K |-> Linear_init(d_model, attn_dim * n_heads),
              Linear_V |-> Linear_init(d_model, attn_dim * n_heads),
              scaled_dot_attn |-> ScaledDotProductAttention_init(attn_dim),
              created |-> <<"Linear_Q", "Linear_K", "Linear_V", "scaled_dot_attn">>]

\* BasicConv.__init__: the convolution, then BatchNorm2d(out_planes) when bn,
\* then ReLU when relu.
BasicConv_init(in_planes, out_planes, kernel_size, stride, padding, relu, bn) ==
    [conv |-> Conv2d_init(in_planes, out_planes, kernel_size, stride, padding),
     has_bn |-> bn, bn |-> [num_features |-> out_planes], relu |-> relu]

kernel_size == 7

SpatialGate_init ==
    [kind |-> "SpatialGate", ok |-> TRUE, training |-> TRUE,
     spatial |-> BasicConv_init(2, 1, kernel_size, 1, (kernel_size - 1) \div 2,
                                FALSE, TRUE)]

\* ChannelGate.__init__: the bottleneck width is the floored quotient; only
\* a zero ratio (ZeroDivisionError) stops the construction.
ChannelGate_init(gate_channels, reduction_ratio, pool_types) ==
    IF reduction_ratio = 0 THEN Raised("ChannelGate", "ZeroDivisionError")
    ELSE LET hidden == gate_channels \div reduction_ratio
         IN  [kind |-> "ChannelGate", ok |-> TRUE, training |-> TRUE,
              gate_channels |-> gate_channels,
              reduction_ratio |-> reduction_ratio,
              mlp |-> <<Linear_init(gate_channels, hidden),
                        Linear_init(hidden, gate_channels)>>,
              pool_types |-> pool_types]

\* An attribute the constructor did not set.
NoModule == [kind |-> "none"]

CCBAM_init(gate_channels, reduction_ratio, pool_types, no_spatial) ==
    LET cg == ChannelGate_init(gate_channels, reduction_ratio, pool_types)
    IN  IF ~cg.ok THEN Raised("CCBAM", cg.error)
        ELSE [kind |-> "CCBAM", ok |-> TRUE, training |-> TRUE,
              ChannelGate_real |-> cg, ChannelGate_imag |-> cg,
              no_spatial |-> no_spatial,
              SpatialGate_real |-> IF no_spatial THEN NoModule ELSE SpatialGate_init,
              SpatialGate_imag |-> IF no_spatial THEN NoModule ELSE SpatialGate_init]

Self_Attn_init(in_channels) ==
    [kind |-> "Self_Attn", ok |-> TRUE, training |-> TRUE,
     in_channels |-> in_channels,
     conv_q |-> Conv2d_init(in_channels, in_channels \div 8, 1, 1, 0),
     conv_k |-> Conv2d_init(in_channels, in_channels \div 8, 1, 1, 0),
     conv_v |-> Conv2d_init(in_channels, in_channels, 1, 1, 0),
     gamma |-> 0]

\* ------------------------------------------------------------------------
\* The shape layer of the forwards.  A forward yields the shapes of what it
\* returns: out (the context or the feature map) and attn (the attention
\* matrix, <<>> for the gates, which return none); both are ShapeErr when
\* the call raises.
\* ------------------------------------------------------------------------
NoMask == <<-2>>
NoAttn == <<>>
ShapeRaise == [out |-> ShapeErr, attn |-> ShapeErr]
Returns(out, attn) ==
    IF IsErr(out) \/ IsErr(attn) THEN ShapeRaise ELSE [out |-> out, attn |-> attn]

ScaledDotProductAttention_shape(query, key, value, mask) ==
    LET score  == BmmShape(query, Transpose12Shape(key))
        filled == IF mask # NoMask THEN MaskedFillShape(score, mask) ELSE score
        attn   == filled
    IN  Returns(BmmShape(attn, value), attn)

\* Lines 66-73: project, cut the feature axis into heads, and merge the
\* head axis into the batch axis.
SplitHeads_shape(m, lin, x, batch_size) ==
    ViewShape(
      PermuteShape(
        ViewShape(LinearShape(lin, x), <<batch_size, -1, m.n_heads, m.attn_dim>>),
        <<2, 0, 1, 3>>),
      <<batch_size * m.n_heads, -1, m.attn_dim>>)

\* The un-merge with the last view as wide as one head only.
UnmergeHeads_shape_onehead(m, context, batch_size) ==
    ViewShape(
      PermuteShape(
        ViewShape(context, <<m.n_heads, batch_size, -1, m.attn_dim>>),
        <<1, 2, 0, 3>>),
      <<batch_size, -1, m.attn_dim>>)

\* Lines 80-81: un-merge the head axis and concatenate the heads along the
\* feature axis.
UnmergeHeads_shape(m, context, batch_size) ==
    ViewShape(
      PermuteShape(
        ViewShape(context, <<m.n_heads, batch_size, -1, m.attn_dim>>),
        <<1, 2, 0, 3>>),
      <<batch_size, -1, m.n_heads * m.attn_dim>>)

MultiHeadAttention_shape(m, q, k, v, mask) ==
    IF Len(v) = 0 THEN ShapeRaise
    ELSE
    LET batch_size == v[1]
        query == SplitHeads_shape(m, m.Linear_Q, q, batch_size)
        key   == SplitHeads_shape(m, m.Linear_K, k, batch_size)
        value == SplitHeads_shape(m, m.Linear_V, v, batch_size)
        rmask == IF mask # NoMask THEN Repeat3Shape(mask, m.n_heads) ELSE NoMask
        sdp   == ScaledDotProductAttention_shape(query, key, value, rmask)
        context == UnmergeHeads_shape(m, sdp.out, batch_size)
    IN  Returns(context, sdp.attn)

BasicConv_shape(bc, x, training) ==
    LET c == Conv2dShape(bc.conv, x)
    IN  IF bc.has_bn THEN BatchNorm2dShape(bc.bn, c, training) ELSE c

\* ChannelPool.forward: cat((max over channels, mean over channels), dim=1)
ChannelPool_shape(x) ==
    IF IsErr(x) \/ Len(x) # 4 \/ x[2] < 1 THEN ShapeErr
    ELSE <<x[1], 2, x[3], x[4]>>

SpatialGate_shape(m, x, training) ==
    LET x_compress == ChannelPool_shape(x)
        x_out      == BasicConv_shape(m.spatial, x_compress, training)
        scale      == x_out
    IN  MulShape(x, scale)

\* Flatten.forward: x.view(x.size(0), -1)
Flatten_shape(x) ==
    IF IsErr(x) \/ Len(x) = 0 THEN ShapeErr ELSE ViewShape(x, <<x[1], -1>>)

\* self.mlp: Flatten, Linear, ReLU, Linear
Mlp_shape(mlp, x) ==
    LinearShape(mlp[2], LinearShape(mlp[1], Flatten_shape(x)))

\* logsumexp_2d: [B, C, H, W] -> [B, C, 1]
Logsumexp2d_shape(x) ==
    IF IsErr(x) \/ Len(x) < 2 THEN ShapeErr
    ELSE LET flat == ViewShape(x, <<x[1], x[2], -1>>)
         IN  IF IsErr(flat) \/ flat[3] < 1 THEN ShapeErr
             ELSE <<x[1], x[2], 1>>

PoolKinds == {"avg", "max", "lp", "lse"}

\* The pooled tensor of one entry of pool_types.
Pooled_shape(pool_type, x) ==
    IF pool_type = "lse" THEN Logsumexp2d_shape(x) ELSE Pool2dShape(x)

\* The loop of ChannelGate.forward over pool_types[i..]: sum is the shape of
\* channel_att_sum so far (NoAttn while it is None), raw the shape of
\* channel_att_raw as the previous rounds left it (NoAttn while unbound).
RECURSIVE ChannelAtt_shape(_, _, _, _, _)
ChannelAtt_shape(m, x, i, sum, raw) ==
    IF i > Len(m.pool_types) THEN sum
    ELSE LET pt   == m.pool_types[i]
             raw2 == IF pt \in PoolKinds
                     THEN Mlp_shape(m.mlp, Pooled_shape(pt, x))
                     ELSE IF raw = NoAttn THEN ShapeErr ELSE raw
             sum2 == IF IsErr(raw2) THEN ShapeErr
                     ELSE IF sum = NoAttn THEN raw2
                     ELSE IF sum = raw2 THEN sum ELSE ShapeErr
         IN  IF IsErr(sum2) THEN ShapeErr
             ELSE ChannelAtt_shape(m, x, i + 1, sum2, raw2)

ChannelGate_shape(m, x) ==
    LET channel_att_sum == ChannelAtt_shape(m, x, 1, NoAttn, NoAttn)
    IN  IF IsErr(channel_att_sum) \/ channel_att_sum = NoAttn THEN ShapeErr
        ELSE IF Len(channel_att_sum) # 2 \/ Len(x) # 4 THEN ShapeErr
        ELSE LET unsq == <<channel_att_sum[1], channel_att_sum[2], 1, 1>>
                 \* expand_as(x): every size equal to x's, or 1
                 scale == IF Broadcastable(unsq, x) THEN x ELSE ShapeErr
             IN  MulShape(x, scale)

CCBAM_shape(m, x, training) ==
    IF IsErr(x) \/ Len(x) < 1 THEN ShapeErr
    ELSE IF x[Len(x)] < 2 THEN ShapeErr          \* x[..., 1] is out of range
    ELSE
    LET real == SubSeq(x, 1, Len(x) - 1)
        imag == SubSeq(x, 1, Len(x) - 1)
        real_cg  == ChannelGate_shape(m.ChannelGate_real, real)
        real_out == IF ~m.no_spatial
                    THEN SpatialGate_shape(m.SpatialGate_real, real_cg, training)
                    ELSE real_cg
        imag_cg  == ChannelGate_shape(m.ChannelGate_imag, imag)
        imag_out == IF ~m.no_spatial
                    THEN SpatialGate_shape(m.SpatialGate_imag, imag_cg, training)
                    ELSE imag_cg
    IN  IF IsErr(real_out) \/ IsErr(imag_out) \/ real_out # imag_out THEN ShapeErr
        ELSE real_out \o <<2>>

Self_Attn_shape(m, x) ==
    IF IsErr(x) \/ Len(x) # 4 THEN ShapeRaise
    ELSE
    LET batch == x[1]
        channel == x[2]
        freq == x[3]
        time == x[4]
        Q == PermuteShape(ViewShape(Conv2dShape(m.conv_q, x),
                                    <<batch, -1, freq * time>>), <<0, 2, 1>>)
        K == ViewShape(Conv2dShape(m.conv_k, x), <<batch, -1, freq * time>>)
        V == ViewShape(Conv2dShape(m.conv_v, x), <<batch, -1, freq * time>>)
        energy == BmmShape(Q, K)
        attn == energy
        out0 == BmmShape(V, PermuteShape(attn, <<0, 2, 1>>))
        out1 == ViewShape(out0, <<batch, channel, freq, time>>)
        out  == IF IsErr(out1) \/ out1 # x THEN ShapeErr ELSE out1
    IN  Returns(out, attn)

\* ------------------------------------------------------------------------
\* The value layer.  Numbers are fixed-point: an integer n stands for the
\* real n / Scale.  exp, log, sqrt and the logistic sigmoid are computed in
\* that arithmetic, so they round as floating point does, only coarser.
\* ------------------------------------------------------------------------
Scale == 1000

RECURSIVE ISqrtBetween(_, _, _)
ISqrtBetween(n, lo, hi) ==
    IF lo >= hi THEN lo
    ELSE LET mid == (lo + hi + 1) \div 2
         IN  IF mid * mid <= n THEN ISqrtBetween(n, mid, hi)
             ELSE ISqrtBetween(n, lo, mid - 1)

\* The integer square root; of a fixed-point x it is taken as ISqrt(x * Scale).
ISqrt(n) == IF n <= 0 THEN 0 ELSE ISqrtBetween(n, 0, Min2(n, 46340))

\* exp(-1) in fixed point
ExpMinusOne == 368

RECURSIVE ExpNegInt(_)
ExpNegInt(k) == IF k = 0 THEN Scale
                ELSE IF k > 8 THEN 0
                ELSE (ExpNegInt(k - 1) * ExpMinusOne) \div Scale

\* exp(-z) for a fixed-point z >= 0: exp(-k) * exp(-f) with k the whole part
\* and f the fraction, exp(-f) by its series to the fourth power.
ExpNeg(z) ==
    LET k  == z \div Scale
        f  == z % Scale
        f2 == (f * f) \div Scale
        f3 == (f2 * f) \div Scale
        f4 == (f3 * f) \div Scale
        series == Scale - f + (f2 \div 2) - (f3 \div 6) + (f4 \div 24)
    IN  (ExpNegInt(k) * series) \div Scale

\* log(y) for a fixed-point y >= 1: 2 * atanh((y - 1) / (y + 1)) by its
\* series to the seventh power.
Log(y) ==
    LET u  == ((y - Scale) * Scale) \div (y + Scale)
        u2 == (u * u) \div Scale
        u3 == (u2 * u) \div Scale
        u5 == (u3 * u2) \div Scale
        u7 == (u5 * u2) \div Scale
    IN  2 * (u + (u3 \div 3) + (u5 \div 5) + (u7 \div 7))

\* F.sigmoid(z) = 1 / (1 + exp(-z))
Sigmoid(z) ==
    IF z >= 0 THEN (Scale * Scale) \div (Scale + ExpNeg(z))
    ELSE LET e == ExpNeg(-z) IN (e * Scale) \div (Scale + e)

\* ------------------------------------------------------------------------
\* Tensors: a shape and the entries in row-major (contiguous) order.
\* Multi-indices count from 0, as in the code.
\* ------------------------------------------------------------------------
RECURSIVE FlatFrom(_, _, _, _)
FlatFrom(idx, shape, d, acc) ==
    IF d > Len(shape) THEN acc
    ELSE FlatFrom(idx, shape, d + 1, acc * shape[d] + idx[d])

\* The offset of multi-index idx in a contiguous tensor of the given shape.
Flat(idx, shape) == FlatFrom(idx, shape, 1, 0)

\* The multi-index at offset i.
Unflat(i, shape) ==
    [d \in DOMAIN shape |->
        (i \div Prod(SubSeq(shape, d + 1, Len(shape)))) % shape[d]]

At(t, idx) == t.data[Flat(idx, t.shape) + 1]

\* Python evaluates the operands of a call once, before the call: Body is
\* applied to the values of a, b and c.
Eager1(a, Body(_)) == CHOOSE r \in {Body(x) : x \in {a}} : TRUE
Eager2(a, b, Body(_, _)) == CHOOSE r \in {Body(x, y) : x \in {a}, y \in {b}} : TRUE
Eager3(a, b, c, Body(_, _, _)) ==
    CHOOSE r \in {Body(x, y, z) : x \in {a}, y \in {b}, z \in {c}} : TRUE

\* The tensor of the given shape whose entry at idx is F(idx).
MkTensor(shape, F(_)) ==
    Eager1(shape, LAMBDA sh :
        [shape |-> sh,
         data  |-> [i \in 1..Prod(sh) |-> Eager1(Unflat(i - 1, sh), F)]])

\* x.view(target): the same entries under another shape.
View(x, target) ==
    Eager1(x, LAMBDA t : [shape |-> ViewShape(t.shape, target), data |-> t.data])

\* x.permute(perm).contiguous()
Permute(x, perm) ==
    Eager1(x, LAMBDA t :
        MkTensor(PermuteShape(t.shape, perm),
                 LAMBDA idx : At(t, [d \in DOMAIN t.shape |->
                                       idx[CHOOSE j \in DOMAIN perm : perm[j] = d - 1]])))

\* torch.bmm(x, y) of tensors of numbers
Bmm(x, y) ==
    Eager2(x, y, LAMBDA a, b :
        MkTensor(BmmShape(a.shape, b.shape),
                 LAMBDA idx : Sum([m \in 1..a.shape[3] |->
                                     At(a, <<idx[1], idx[2], m - 1>>)
                                       * At(b, <<idx[1], m - 1, idx[3]>>)])
                                \div Scale))

\* nn.Linear: x W^T + b over the last axis, W of shape [out, in]
Linear(lin, input) ==
    Eager1(input, LAMBDA x :
        MkTensor(LinearShape(lin, x.shape),
                 LAMBDA idx :
                    (Sum([m \in 1..lin.in_features |->
                            At(x, [d \in DOMAIN idx |->
                                     IF d = Len(idx) THEN m - 1 ELSE idx[d]])
                              * At(lin.weight, <<idx[Len(idx)], m - 1>>)])
                       \div Scale)
                      + lin.bias.data[idx[Len(idx)] + 1]))

SetMax(S) == CHOOSE x \in S : \A y \in S : y <= x

\* ------------------------------------------------------------------------
\* ScaledDotProductAttention.forward, value layer.
\*   A score is [inf, v]: minus infinity (inf) or the number v.
\*   An attention weight is [nan, n, d]: not-a-number (nan) or the exact
\*   quotient n / d of the softmax.
\*   A context entry is [nan, v]: not-a-number or the number v.
\* ------------------------------------------------------------------------
NoMaskT == [shape |-> NoMask, data |-> <<>>]

\* np.sqrt(dim)
SqrtDim(m) == ISqrt(m.dim * Scale * Scale)

\* torch.bmm(query, key.transpose(1, 2)) / self.sqrt_dim
Score(m, query, key) ==
    Eager1(Bmm(query, Permute(key, <<0, 2, 1>>)), LAMBDA qk :
        Eager1(SqrtDim(m), LAMBDA sqrt_dim :
            MkTensor(qk.shape, LAMBDA idx : (At(qk, idx) * Scale) \div sqrt_dim)))

\* The mask entry that broadcasts to the score entry at idx.
MaskAt(mask, idx) ==
    At(mask, [d \in DOMAIN idx |-> IF mask.shape[d] = 1 THEN 0 ELSE idx[d]])

\* score.masked_fill_(mask, -np.inf), skipped when mask is None
MaskedFill(score, mask) ==
    Eager2(score, mask, LAMBDA s, k :
        MkTensor(s.shape,
                 LAMBDA idx : [inf |-> IF k.shape = NoMask THEN FALSE
                                       ELSE MaskAt(k, idx),
                               v   |-> At(s, idx)]))

\* The entries of the row of a 3-d tensor that holds idx.
Row(t, idx) == [j \in 1..t.shape[3] |-> At(t, <<idx[1], idx[2], j - 1>>)]

\* exp(s - max) of every score of a row that has a finite score.
RowExp(row) ==
    Eager1(SetMax({row[j].v : j \in {i \in DOMAIN row : ~row[i].inf}}), LAMBDA top :
        [j \in DOMAIN row |-> IF row[j].inf THEN 0 ELSE ExpNeg(top - row[j].v)])

\* A softmax that leaves out the division by the row's sum.
SoftmaxUnnormalised(score) ==
    Eager1(score, LAMBDA s :
        MkTensor(s.shape, LAMBDA idx :
            Eager1(Row(s, idx), LAMBDA row :
                IF \A j \in DOMAIN row : row[j].inf
                THEN [nan |-> TRUE, n |-> 0, d |-> 1]
                ELSE Eager1(RowExp(row), LAMBDA e :
                        [nan |-> FALSE, n |-> e[idx[3] + 1], d |-> Scale]))))

\* F.softmax(score, -1): exp(s - max) / sum exp(s - max) along each row.
\* A row of minus infinities has max - max = nan in every entry.
Softmax(score) ==
    Eager1(score, LAMBDA s :
        MkTensor(s.shape, LAMBDA idx :
            Eager1(Row(s, idx), LAMBDA row :
                IF \A j \in DOMAIN row : row[j].inf
                THEN [nan |-> TRUE, n |-> 0, d |-> 1]
                ELSE Eager1(RowExp(row), LAMBDA e :
                        [nan |-> FALSE, n |-> e[idx[3] + 1], d |-> Sum(e)]))))

\* dropout_p = 0.1 as the quotient dropout_p_num / dropout_p_den
dropout_p_num == 1
dropout_p_den == 10

\* nn.Dropout: the identity in evaluation mode; in training mode the
\* entries marked in drop become 0 and the others are divided by 1 - p.
Dropout(input, training, drop) ==
    Eager1(input, LAMBDA attn :
        IF ~training THEN attn
        ELSE MkTensor(attn.shape,
                      LAMBDA idx :
                         Eager1(At(attn, idx), LAMBDA a :
                             IF a.nan THEN a
                             ELSE [nan |-> FALSE,
                                   n   |-> IF At(drop, idx) THEN 0
                                           ELSE a.n * dropout_p_den,
                                   d   |-> a.d * (dropout_p_den - dropout_p_num)])))

\* torch.bmm(attn, value): every weight of a row has the row's denominator.
BmmAttn(weights, input) ==
    Eager2(weights, input, LAMBDA attn, value :
        MkTensor(BmmShape(attn.shape, value.shape),
                 LAMBDA idx :
                    Eager1(Row(attn, idx), LAMBDA row :
                        IF \E j \in DOMAIN row : row[j].nan
                        THEN [nan |-> TRUE, v |-> 0]
                        ELSE [nan |-> FALSE,
                              v   |-> Sum([j \in DOMAIN row |->
                                             row[j].n * At(value, <<idx[1], j - 1, idx[3]>>)])
                                        \div row[1].d])))

Raise == [ok |-> FALSE]

\* drop marks the entries the dropout of this call zeroes (read in training
\* mode only).
ScaledDotProductAttention_forward(m, query, key, value, mask, drop) ==
    IF IsErr(ScaledDotProductAttention_shape(query.shape, key.shape,
                                             value.shape, mask.shape).out)
    THEN Raise
    ELSE Eager1(Dropout(Softmax(MaskedFill(Score(m, query, key), mask)),
                        m.training, drop),
                LAMBDA attn :
                   [ok |-> TRUE, context |-> BmmAttn(attn, value), attn |-> attn])

\* ------------------------------------------------------------------------
\* The program as a state machine.
\*   inp  the input of the run: the sizes (and, in the value layer, the
\*        entries) of the tensors the caller passes to forward
\*   cfg  the arguments of the last constructor call
\*   blk  the block it built, or the exception it raised
\*   arg  the arguments of the last forward call (NoCall before the first)
\*        and the mode the block was in
\*   ret  what that call returned
\*   op   the operation that led to this state: "new", "mode", "forward"
\*        or "step" (an optimizer step)
\* ------------------------------------------------------------------------
NoCall == [kind |-> "none"]
NoBlock == [kind |-> "none", ok |-> FALSE]

\* model.train() / model.eval() (src/main.py) set the mode of a block.
SetTraining(mode) ==
    /\ blk.ok
    /\ blk.training # mode
    /\ blk' = [blk EXCEPT !.training = mode]
    /\ op' = "mode"
    /\ UNCHANGED <<inp, cfg, arg, ret>>

Train == SetTraining(TRUE)
Eval == SetTraining(FALSE)

\* ---- multi-head attention, shape layer ----------------------------------
NewMultiHeadAttention ==
    /\ blk.kind = "none"
    /\ \E d_model \in 1..MaxDModel, n_heads \in 0..MaxHeads :
        /\ cfg' = [kind |-> "MultiHeadAttention",
                   d_model |-> d_model, n_heads |-> n_heads]
        /\ blk' = MultiHeadAttention_init(d_model, n_heads)
    /\ op' = "new"
    /\ UNCHANGED <<inp, arg, ret>>

\* The mask a caller passes with q [B, Lq, .] and k [B, Lk, .]: none, the
\* [B, Lq, Lk] mask of the contract, or a mask of another batch size.
MaskKinds == {"none", "contract", "otherbatch"}
MaskShape(kind, B, Lq, Lk) ==
    IF kind = "none" THEN NoMask
    ELSE IF kind = "contract" THEN <<B, Lq, Lk>>
    ELSE <<B + 1, Lq, Lk>>

\* q, k and v are as wide as d_model, or (wide = 1) one wider.
MultiHeadAttentionForwardShape ==
    /\ blk.ok /\ blk.kind = "MultiHeadAttention"
    /\ LET width == blk.d_model + inp.wide
       IN  /\ arg' = [kind |-> "MultiHeadAttention", training |-> blk.training,
                      q |-> <<inp.B, inp.Lq, width>>,
                      k |-> <<inp.B, inp.Lk, width>>,
                      v |-> <<inp.B, inp.Lk, width>>,
                      mask |-> MaskShape(inp.mask, inp.B, inp.Lq, inp.Lk)]
           /\ ret' = MultiHeadAttention_shape(blk, arg'.q, arg'.k, arg'.v, arg'.mask)
    /\ op' = "forward"
    /\ UNCHANGED <<inp, cfg, blk>>

InitMHAShape ==
    /\ inp \in [B : 1..MaxB, Lq : 1..MaxL, Lk : 1..MaxL, wide : 0..1,
                mask : MaskKinds]
    /\ cfg = NoCall
    /\ blk = NoBlock
    /\ arg = NoCall
    /\ ret = NoCall
    /\ op = "init"

NextMHAShape ==
    \/ NewMultiHeadAttention
    \/ MultiHeadAttentionForwardShape
    \/ Train
    \/ Eval

SpecMHAShape == InitMHAShape /\ [][NextMHAShape]_vars

\* ------------------------------------------------------------------------
\* C5: constructing MultiHeadAttention with d_model % n_heads # 0 fails at
\* construction, before any projection layer exists and with no forward
\* call possible on the result; a construction that succeeds has n_heads
\* dividing d_model and attn_dim * n_heads = d_model.
\* ------------------------------------------------------------------------
C5_ConstructionChecksDivisibility ==
    cfg.kind = "MultiHeadAttention" =>
        /\ (cfg.n_heads = 0 \/ cfg.d_model % cfg.n_heads # 0) =>
              /\ ~blk.ok
              /\ blk.created = <<>>
              /\ arg = NoCall /\ ret = NoCall /\ op # "forward"
        /\ blk.ok =>
              /\ cfg.n_heads # 0
              /\ cfg.d_model % cfg.n_heads = 0
              /\ blk.attn_dim * blk.n_heads = cfg.d_model
              /\ blk.Linear_Q.out_features = cfg.d_model

C5_Witness ==
    /\ cfg.kind = "MultiHeadAttention"
    /\ cfg.n_heads > 1
    /\ cfg.d_model % cfg.n_heads # 0
    /\ ~blk.ok
    /\ blk.error = "AssertionError"

\* ------------------------------------------------------------------------
\* C2: with n_heads dividing d_model, forward on q [B, Lq, d_model] and
\* k, v [B, Lk, d_model] (no mask, or the [B, Lq, Lk] mask) returns a
\* context of shape [B, Lq, d_model] and attention weights of shape
\* [B * n_heads, Lq, Lk]; d_model = 512, n_heads = 8, B = 4, L = 10 gives
\* [4, 10, 512] and [32, 10, 10].
\* ------------------------------------------------------------------------
ContractCall ==
    /\ blk.ok /\ blk.kind = "MultiHeadAttention"
    /\ arg.kind = "MultiHeadAttention"
    /\ arg.q[3] = blk.d_model
    /\ arg.mask \in {NoMask, <<arg.q[1], arg.q[2], arg.k[2]>>}

C2_MultiHeadShapes ==
    /\ ContractCall =>
          /\ ret.out = <<arg.q[1], arg.q[2], blk.d_model>>
          /\ ret.attn = <<arg.q[1] * blk.n_heads, arg.q[2], arg.k[2]>>
    /\ MultiHeadAttention_shape(MultiHeadAttention_init(512, 8),
                                <<4, 10, 512>>, <<4, 10, 512>>, <<4, 10, 512>>,
                                NoMask)
         = [out |-> <<4, 10, 512>>, attn |-> <<32, 10, 10>>]

C2_Witness ==
    /\ ContractCall
    /\ blk.n_heads > 1 /\ blk.attn_dim > 1
    /\ arg.q[2] # arg.k[2]
    /\ arg.mask # NoMask
    /\ ret.out = <<arg.q[1], arg.q[2], blk.d_model>>

\* ---- the gates and Self_Attn, shape layer --------------------------------
\* The pool_types lists: every list of 1..MaxPools pooling kinds.
PoolTypeLists == UNION {[1..n -> PoolKinds] : n \in 1..MaxPools}

NewChannelGate ==
    /\ blk.kind = "none"
    /\ \E gate_channels \in 1..MaxGate, reduction_ratio \in 0..MaxRatio,
          pool_types \in PoolTypeLists :
        /\ cfg' = [kind |-> "ChannelGate", gate_channels |-> gate_channels,
                   reduction_ratio |-> reduction_ratio]
        /\ blk' = ChannelGate_init(gate_channels, reduction_ratio, pool_types)
    /\ op' = "new"
    /\ UNCHANGED <<inp, arg, ret>>

NewSpatialGate ==
    /\ blk.kind = "none"
    /\ cfg' = [kind |-> "SpatialGate"]
    /\ blk' = SpatialGate_init
    /\ op' = "new"
    /\ UNCHANGED <<inp, arg, ret>>

NewCCBAM ==
    /\ blk.kind = "none"
    /\ \E gate_channels \in 1..MaxGate, reduction_ratio \in 0..MaxRatio,
          pool_types \in PoolTypeLists, no_spatial \in BOOLEAN :
        /\ cfg' = [kind |-> "CCBAM", gate_channels |-> gate_channels,
                   reduction_ratio |-> reduction_ratio]
        /\ blk' = CCBAM_init(gate_channels, reduction_ratio, pool_types, no_spatial)
    /\ op' = "new"
    /\ UNCHANGED <<inp, arg, ret>>

NewSelf_Attn ==
    /\ blk.kind = "none"
    /\ \E in_channels \in 1..MaxInChannels :
        /\ cfg' = [kind |-> "Self_Attn", in_channels |-> in_channels]
        /\ blk' = Self_Attn_init(in_channels)
    /\ op' = "new"
    /\ UNCHANGED <<inp, arg, ret>>

\* The feature map has the channel count the block was built for, or
\* (wide = 1) one more.
ChannelGateForwardShape ==
    /\ blk.ok /\ blk.kind = "ChannelGate"
    /\ arg' = [kind |-> "ChannelGate", training |-> blk.training,
               x |-> <<inp.B, blk.gate_channels + inp.wide, inp.H, inp.W>>]
    /\ ret' = Returns(ChannelGate_shape(blk, arg'.x), NoAttn)
    /\ op' = "forward"
    /\ UNCHANGED <<inp, cfg, blk>>

\* A SpatialGate takes any channel count: here 1 or 2.
SpatialGateForwardShape ==
    /\ blk.ok /\ blk.kind = "SpatialGate"
    /\ arg' = [kind |-> "SpatialGate", training |-> blk.training,
               x |-> <<inp.B, 1 + inp.wide, inp.H, inp.W>>]
    /\ ret' = Returns(SpatialGate_shape(blk, arg'.x, blk.training), NoAttn)
    /\ op' = "forward"
    /\ UNCHANGED <<inp, cfg, blk>>

CCBAMForwardShape ==
    /\ blk.ok /\ blk.kind = "CCBAM"
    /\ arg' = [kind |-> "CCBAM", training |-> blk.training,
               x |-> <<inp.B, blk.ChannelGate_real.gate_channels + inp.wide,
                       inp.H, inp.W, 2>>]
    /\ ret' = Returns(CCBAM_shape(blk, arg'.x, blk.training), NoAttn)
    /\ op' = "forward"
    /\ UNCHANGED <<inp, cfg, blk>>

Self_AttnForwardShape ==
    /\ blk.ok /\ blk.kind = "Self_Attn"
    /\ arg' = [kind |-> "Self_Attn", training |-> blk.training,
               x |-> <<inp.B, blk.in_channels + inp.wide, inp.H, inp.W>>]
    /\ ret' = Self_Attn_shape(blk, arg'.x)
    /\ op' = "forward"
    /\ UNCHANGED <<inp, cfg, blk>>

InitGateShape ==
    /\ inp \in [B : 1..MaxB, H : 1..MaxH, W : 1..MaxW, wide : 0..1]
    /\ cfg = NoCall
    /\ blk = NoBlock
    /\ arg = NoCall
    /\ ret = NoCall
    /\ op = "init"

NextGateShape ==
    \/ NewSelf_Attn
    \/ NewChannelGate
    \/ NewSpatialGate
    \/ NewCCBAM
    \/ ChannelGateForwardShape
    \/ SpatialGateForwardShape
    \/ CCBAMForwardShape
    \/ Self_AttnForwardShape
    \/ Train
    \/ Eval

SpecGateShape == InitGateShape /\ [][NextGateShape]_vars

\* The channel count the block was configured for.
ConfiguredChannels ==
    IF blk.kind = "ChannelGate" THEN blk.gate_channels
    ELSE IF blk.kind = "CCBAM" THEN blk.ChannelGate_real.gate_channels
    ELSE IF blk.kind = "Self_Attn" THEN blk.in_channels
    ELSE arg.x[2]          \* a SpatialGate is built for no channel count

\* A forward call of a gate or of Self_Attn on a feature map of the
\* configured channel count.
ValidGateCall ==
    /\ blk.ok
    /\ blk.kind \in {"ChannelGate", "SpatialGate", "CCBAM", "Self_Attn"}
    /\ arg.kind = blk.kind
    /\ arg.x[2] = ConfiguredChannels

\* ------------------------------------------------------------------------
\* C1: for every valid input shape B, C, H, W >= 1, SpatialGate.forward,
\* ChannelGate.forward and Self_Attn.forward return a feature map of shape
\* [B, C, H, W] and CCBAM.forward on [B, C, H, W, 2] returns [B, C, H, W, 2]
\* (e.g. [2, 32, 259, 120, 2] with reduction_ratio 16 and avg+max pooling);
\* the 7x7 convolution with padding (7-1)//2 and stride 1 keeps H and W.
\* ------------------------------------------------------------------------
C1_ShapePreserved ==
    /\ ValidGateCall => ret.out = arg.x
    /\ CCBAM_shape(CCBAM_init(32, 16, <<"avg", "max">>, FALSE),
                   <<2, 32, 259, 120, 2>>, FALSE) = <<2, 32, 259, 120, 2>>
    /\ \A n \in 1..(MaxH + MaxW) :
          ConvOut(n, kernel_size, 1, (kernel_size - 1) \div 2) = n

\* The part of C1 the code keeps: the shape is preserved whenever the
\* forward returns, and it returns unless Self_Attn has fewer than 8
\* channels or a SpatialGate in training mode sees a single value.
C1_ShapePreservedWhereForwardReturns ==
    ValidGateCall =>
        /\ ~IsErr(ret.out) => ret.out = arg.x
        /\ IsErr(ret.out) =>
              \/ blk.kind = "Self_Attn" /\ blk.in_channels < 8
              \/ /\ blk.kind \in {"SpatialGate", "CCBAM"}
                 /\ arg.training
                 /\ arg.x[1] * arg.x[3] * arg.x[4] = 1

\* ------------------------------------------------------------------------
\* C6: constructing ChannelGate (and so CCBAM) with gate_channels %
\* reduction_ratio # 0 raises at construction; no instance exists whose
\* bottleneck width is a truncated quotient or is not a positive integer.
\* ------------------------------------------------------------------------
BottleneckWidth ==
    IF blk.kind = "CCBAM" THEN blk.ChannelGate_real.mlp[1].out_features
    ELSE blk.mlp[1].out_features

C6_IncompatibleRatioRejected ==
    cfg.kind \in {"ChannelGate", "CCBAM"} =>
        /\ (cfg.reduction_ratio = 0
              \/ cfg.gate_channels % cfg.reduction_ratio # 0) => ~blk.ok
        /\ blk.ok =>
              /\ BottleneckWidth >= 1
              /\ BottleneckWidth * cfg.reduction_ratio = cfg.gate_channels


\* ------------------------------------------------------------------------
\* The tensors a run passes to forward.  One seed fixes the entries of
\* every tensor of the call: a ramp over the contiguous order, in steps of
\* half a unit, folded into -MaxVal..MaxVal half units.  A mask or a dropout
\* pattern is the bits of its seed, repeated along the contiguous order.
\* ------------------------------------------------------------------------
ValMod == 2 * MaxVal + 1
ValUnit == Scale \div 2

Ramp(shape, seed, salt) ==
    LET a == (seed + salt) % ValMod
        c == ((seed \div 2) + 2 * salt) % ValMod
    IN  MkTensor(shape,
                 LAMBDA idx :
                    ((((a * Flat(idx, shape)) + c + MaxVal) % ValMod) - MaxVal)
                      * ValUnit)

RECURSIVE Pow2(_)
Pow2(n) == IF n = 0 THEN 1 ELSE 2 * Pow2(n - 1)

Bit(seed, i) == (seed \div Pow2(i)) % 2

BitTensor(shape, seed, bits) ==
    MkTensor(shape, LAMBDA idx : Bit(seed, Flat(idx, shape) % bits) = 1)

\* mseed = -1: the caller passes no mask.
MaskTensor(shape, mseed) ==
    IF mseed < 0 THEN NoMaskT ELSE BitTensor(shape, mseed, MaskBits)

\* ---- scaled dot-product attention, value layer --------------------------
NewScaledDotProductAttention ==
    /\ blk.kind = "none"
    /\ \E dim \in 1..MaxDim :
        /\ cfg' = [kind |-> "ScaledDotProductAttention", dim |-> dim]
        /\ blk' = ScaledDotProductAttention_init(dim)
    /\ op' = "new"
    /\ UNCHANGED <<inp, arg, ret>>

\* The dropout patterns a call may draw: any, in training mode.
DropSeeds(training) == IF training THEN 0..MaxDropSeed ELSE {0}

\* query and key are as wide as the dim the block scales by; so is value.
ScaledDotProductAttentionForward ==
    /\ blk.ok /\ blk.kind = "ScaledDotProductAttention"
    /\ \E dseed \in DropSeeds(blk.training) :
        /\ arg' = [kind |-> "ScaledDotProductAttention",
                   training |-> blk.training,
                   query |-> Ramp(<<inp.B, inp.Lq, blk.dim>>, inp.seed, 0),
                   key   |-> Ramp(<<inp.B, inp.Lk, blk.dim>>, inp.seed, 1),
                   value |-> Ramp(<<inp.B, inp.Lk, blk.dim>>, inp.seed, 2),
                   mask  |-> MaskTensor(<<inp.B, inp.Lq, inp.Lk>>, inp.mseed),
                   drop  |-> BitTensor(<<inp.B, inp.Lq, inp.Lk>>, dseed, DropBits)]
        /\ ret' = ScaledDotProductAttention_forward(
                      blk, arg'.query, arg'.key, arg'.value, arg'.mask, arg'.drop)
    /\ op' = "forward"
    /\ UNCHANGED <<inp, cfg, blk>>

InitSDPA ==
    /\ inp \in [B : 1..MaxVB, Lq : 1..MaxVL, Lk : 1..MaxVL,
                seed : 0..MaxSeed, mseed : -1..MaxMaskSeed]
    /\ cfg = NoCall
    /\ blk = NoBlock
    /\ arg = NoCall
    /\ ret = NoCall
    /\ op = "init"

NextSDPA ==
    \/ NewScaledDotProductAttention
    \/ ScaledDotProductAttentionForward
    \/ Train
    \/ Eval

SpecSDPA == InitSDPA /\ [][NextSDPA]_vars

\* A returned call of ScaledDotProductAttention.forward with dropout
\* inactive (evaluation mode).
EvalAttention ==
    /\ arg.kind = "ScaledDotProductAttention"
    /\ ret.ok
    /\ ~arg.training

\* The query rows of the last call, as indices <<b, i>>.
QueryRows == (0..(arg.query.shape[1] - 1)) \X (0..(arg.query.shape[2] - 1))
Keys == 0..(arg.key.shape[2] - 1)
Masked(r, j) == arg.mask.shape # NoMask /\ At(arg.mask, <<r[1], r[2], j>>)
Weight(r, j) == At(ret.attn, <<r[1], r[2], j>>)
FullyMasked(r) == \A j \in Keys : Masked(r, j)

\* ------------------------------------------------------------------------
\* C3 (as stated): with dropout inactive, for every mask and every query
\* row, each (query, key) pair whose mask entry is true has attention
\* weight 0.
\* ------------------------------------------------------------------------
C3_MaskedWeightIsZero ==
    EvalAttention =>
        \A r \in QueryRows : \A j \in Keys :
            Masked(r, j) => (~Weight(r, j).nan /\ Weight(r, j).n = 0)

\* What the code does hold to: in a query row with at least one unmasked
\* key each masked pair has weight 0, and a row whose keys are all masked
\* has not-a-number in every weight (softmax of a row of -inf).
MaskedWeightIsZeroUnlessRowFullyMasked ==
    EvalAttention =>
        \A r \in QueryRows :
            IF FullyMasked(r)
            THEN \A j \in Keys : Weight(r, j).nan
            ELSE \A j \in Keys :
                    Masked(r, j) => (~Weight(r, j).nan /\ Weight(r, j).n = 0)

\* ------------------------------------------------------------------------
\* C4: for all valid inputs (with or without a mask; an input is valid
\* when every query row has at least one unmasked key) and dropout
\* inactive, every row of the returned attention matrix consists of
\* non-negative weights that sum to 1.
\* ------------------------------------------------------------------------
RowIsDistribution(r) ==
    /\ \A j \in Keys : ~Weight(r, j).nan /\ Weight(r, j).n >= 0 /\ Weight(r, j).d > 0
    /\ \A j \in Keys : Weight(r, j).d = Weight(r, 0).d
    /\ Sum([j \in 1..Cardinality(Keys) |-> Weight(r, j - 1).n]) = Weight(r, 0).d

ValidAttentionInput == \A r \in QueryRows : ~FullyMasked(r)

C4_RowsAreDistributions ==
    (EvalAttention /\ ValidAttentionInput) =>
        \A r \in QueryRows : RowIsDistribution(r)

C4_Witness ==
    /\ EvalAttention
    /\ ValidAttentionInput
    /\ \E r \in QueryRows : \E j \in Keys : Masked(r, j)
    /\ arg.mask.shape # NoMask
    /\ Cardinality(Keys) > 1
    /\ \E r \in QueryRows :
          /\ ~FullyMasked(r)
          /\ RowIsDistribution(r)
          /\ \E j, k \in Keys : 0 < Weight(r, j).n /\ Weight(r, j).n < Weight(r, k).n

\* ------------------------------------------------------------------------
\* Self_Attn, value layer.
\* ------------------------------------------------------------------------
\* The weight and the bias nn.Conv2d creates, drawn at random by the library.
Conv2d_weights(conv, seed, salt) ==
    [weight |-> Ramp(<<conv.out_channels, conv.in_channels,
                       conv.kernel_size, conv.kernel_size>>, seed, salt),
     bias   |-> Ramp(<<conv.out_channels>>, seed, salt + 1)] @@ conv

\* nn.Conv2d.forward (dilation 1, groups 1), the input padded with zeros:
\* output entry [b, o, i, j] sums weight[o, c, ki, kj] * x[b, c, h, w] over
\* the input entries (c, h, w) the kernel placed at (i, j) covers, (h, w)
\* lying under kernel entry (ki, kj) = (h - i*stride + padding,
\* w - j*stride + padding).
Conv2d(conv, input) ==
    Eager1(input, LAMBDA x :
        MkTensor(Conv2dShape(conv, x.shape),
                 LAMBDA idx :
                    (Sum([t \in 1..(x.shape[2] * x.shape[3] * x.shape[4]) |->
                            LET c  == (t - 1) \div (x.shape[3] * x.shape[4])
                                h  == ((t - 1) \div x.shape[4]) % x.shape[3]
                                w  == (t - 1) % x.shape[4]
                                ki == h - idx[3] * conv.stride + conv.padding
                                kj == w - idx[4] * conv.stride + conv.padding
                            IN  IF ki < 0 \/ ki >= conv.kernel_size
                                   \/ kj < 0 \/ kj >= conv.kernel_size
                                THEN 0
                                ELSE At(conv.weight, <<idx[2], c, ki, kj>>)
                                       * At(x, <<idx[1], c, h, w>>)])
                       \div Scale)
                      + (IF conv.bias.shape = NoMask THEN 0
                         ELSE At(conv.bias, <<idx[2]>>))))

\* Self_Attn.__init__ with the weights the run draws.
Self_Attn_new(in_channels, seed) ==
    LET m == Self_Attn_init(in_channels)
    IN  [m EXCEPT !.conv_q = Conv2d_weights(m.conv_q, seed, 3),
                  !.conv_k = Conv2d_weights(m.conv_k, seed, 5),
                  !.conv_v = Conv2d_weights(m.conv_v, seed, 7)]

\* A score that is a number.
Finite(x) ==
    Eager1(x, LAMBDA t :
        MkTensor(t.shape, LAMBDA idx : [inf |-> FALSE, v |-> At(t, idx)]))

\* torch.bmm(V, attn.permute(0, 2, 1)): entry [b, c, i] sums V[b, c, j] *
\* attn[b, i, j] over j.
BmmTransposedAttn(value, weights) ==
    Eager2(value, weights, LAMBDA V, attn :
        MkTensor(BmmShape(V.shape, PermuteShape(attn.shape, <<0, 2, 1>>)),
                 LAMBDA idx :
                    Eager1(Row(attn, <<idx[1], idx[3], 0>>), LAMBDA row :
                        Sum([j \in DOMAIN row |->
                               At(V, <<idx[1], idx[2], j - 1>>) * row[j].n])
                          \div row[1].d)))


\* out = self.gamma * out + x
Blend(gamma, attended, input) ==
    Eager2(attended, input, LAMBDA out, x :
        MkTensor(x.shape,
                 LAMBDA idx : ((gamma * At(out, idx)) \div Scale) + At(x, idx)))

Self_Attn_forward(m, x) ==
    IF IsErr(Self_Attn_shape(m, x.shape).out) THEN Raise
    ELSE
    LET batch   == x.shape[1]
        channel == x.shape[2]
        freq    == x.shape[3]
        time    == x.shape[4]
        Q == Permute(View(Conv2d(m.conv_q, x), <<batch, -1, freq * time>>),
                     <<0, 2, 1>>)
        K == View(Conv2d(m.conv_k, x), <<batch, -1, freq * time>>)
        V == View(Conv2d(m.conv_v, x), <<batch, -1, freq * time>>)
    IN  Eager1(Softmax(Finite(Bmm(Q, K))), LAMBDA attn :
           [ok   |-> TRUE,
            out  |-> Blend(m.gamma,
                           View(BmmTransposedAttn(V, attn),
                                <<batch, channel, freq, time>>), x),
            attn |-> attn])

NewSelf_AttnWeights ==
    /\ blk.kind = "none"
    /\ \E in_channels \in 1..MaxInChannels :
        /\ cfg' = [kind |-> "Self_Attn", in_channels |-> in_channels, steps |-> 0]
        /\ blk' = Self_Attn_new(in_channels, inp.seed)
    /\ op' = "new"
    /\ UNCHANGED <<inp, arg, ret>>

\* optimizer.step() (src/main.py): every parameter moves.  cfg.steps counts
\* the steps taken.
Self_AttnOptimizerStep ==
    /\ blk.ok /\ blk.kind = "Self_Attn"
    /\ cfg.steps < MaxSteps
    /\ \E g \in {-ValUnit, ValUnit} :
        blk' = [Self_Attn_new(blk.in_channels, inp.seed + cfg.steps + 1)
                  EXCEPT !.gamma = blk.gamma + g, !.training = blk.training]
    /\ cfg' = [cfg EXCEPT !.steps = @ + 1]
    /\ op' = "step"
    /\ UNCHANGED <<inp, arg, ret>>

Self_AttnForward ==
    /\ blk.ok /\ blk.kind = "Self_Attn"
    /\ arg' = [kind |-> "Self_Attn", training |-> blk.training,
               gamma |-> blk.gamma,
               x |-> Ramp(<<inp.B, blk.in_channels, inp.H, inp.W>>, inp.seed, 0)]
    /\ ret' = Self_Attn_forward(blk, arg'.x)
    /\ op' = "forward"
    /\ UNCHANGED <<inp, cfg, blk>>

InitSelf_Attn ==
    /\ inp \in [B : 1..MaxVB, H : 1..MaxVL, W : 1..MaxVL, seed : 0..MaxSeed]
    /\ cfg = NoCall
    /\ blk = NoBlock
    /\ arg = NoCall
    /\ ret = NoCall
    /\ op = "init"

NextSelf_Attn ==
    \/ NewSelf_AttnWeights
    \/ Self_AttnOptimizerStep
    \/ Self_AttnForward
    \/ Train
    \/ Eval

SpecSelf_Attn == InitSelf_Attn /\ [][NextSelf_Attn]_vars

\* ------------------------------------------------------------------------
\* C7: a freshly constructed Self_Attn has gamma = 0, and for every input x
\* Self_Attn.forward with gamma = 0 returns an output equal to x element
\* for element, whatever the convolution weights.
\* ------------------------------------------------------------------------
C7_IdentityAtGammaZero ==
    /\ (blk.kind = "Self_Attn" /\ cfg.steps = 0) => blk.gamma = 0
    /\ (arg.kind = "Self_Attn" /\ arg.gamma = 0) => (ret.ok /\ ret.out = arg.x)

\* Where forward returns (in_channels >= 8) the output at gamma = 0 is x.
IdentityAtGammaZeroWhereForwardReturns ==
    /\ (blk.kind = "Self_Attn" /\ cfg.steps = 0) => blk.gamma = 0
    /\ (arg.kind = "Self_Attn" /\ arg.gamma = 0 /\ ret.ok) => ret.out = arg.x
    /\ (arg.kind = "Self_Attn" /\ ~ret.ok) => cfg.in_channels < 8

GammaZeroForwardReturned ==
    /\ arg.kind = "Self_Attn" /\ arg.gamma = 0 /\ ret.ok
    /\ \E i \in DOMAIN arg.x.data : arg.x.data[i] # 0
    /\ \E i \in DOMAIN blk.conv_v.weight.data : blk.conv_v.weight.data[i] # 0

\* ------------------------------------------------------------------------
\* MultiHeadAttention, value layer.
\* ------------------------------------------------------------------------
Zeros(shape) == MkTensor(shape, LAMBDA idx : 0)

\* nn.Linear followed by init_weight: a random weight, a zero bias.
Linear_weights(lin, seed, salt) ==
    [weight |-> Ramp(<<lin.out_features, lin.in_features>>, seed, salt),
     bias   |-> Zeros(<<lin.out_features>>)] @@ lin

MultiHeadAttention_new(d_model, n_heads, seed) ==
    LET m == MultiHeadAttention_init(d_model, n_heads)
    IN  IF ~m.ok THEN m
        ELSE [m EXCEPT !.Linear_Q = Linear_weights(m.Linear_Q, seed, 3),
                       !.Linear_K = Linear_weights(m.Linear_K, seed, 5),
                       !.Linear_V = Linear_weights(m.Linear_V, seed, 7)]

\* mask.repeat(n, 1, 1): n copies of the mask, one after the other.
Repeat3(mask, n) ==
    Eager1(mask, LAMBDA t :
        MkTensor(Repeat3Shape(t.shape, n),
                 LAMBDA idx : At(t, <<idx[1] % t.shape[1], idx[2], idx[3]>>)))

\* The split with the batch axis left in front: permute(0, 2, 1, 3).
SplitHeads_batchfirst(m, lin, x, batch_size) ==
    View(Permute(View(Linear(lin, x),
                      <<batch_size, -1, m.n_heads, m.attn_dim>>),
                 <<0, 2, 1, 3>>),
         <<batch_size * m.n_heads, -1, m.attn_dim>>)

\* Lines 66-73: project, cut the feature axis into heads, and merge the
\* head axis into the batch axis.
SplitHeads(m, lin, x, batch_size) ==
    View(Permute(View(Linear(lin, x),
                      <<batch_size, -1, m.n_heads, m.attn_dim>>),
                 <<2, 0, 1, 3>>),
         <<batch_size * m.n_heads, -1, m.attn_dim>>)

\* Lines 80-81
UnmergeHeads(m, context, batch_size) ==
    View(Permute(View(context, <<m.n_heads, batch_size, -1, m.attn_dim>>),
                 <<1, 2, 0, 3>>),
         <<batch_size, -1, m.n_heads * m.attn_dim>>)

\* MultiHeadAttention.forward.  Besides what the method returns (out, attn)
\* the result keeps the locals the call of scaled_dot_attn was made with
\* (query, key, value, mask) and what it returned (context).  train() and
\* eval() set the mode of scaled_dot_attn with the mode of the block.
MultiHeadAttention_forward(m, q, k, v, mask, drop) ==
    IF IsErr(MultiHeadAttention_shape(m, q.shape, k.shape, v.shape, mask.shape).out)
    THEN Raise
    ELSE
    LET batch_size == v.shape[1]
        sdp == [m.scaled_dot_attn EXCEPT !.training = m.training]
        locals == [query |-> SplitHeads(m, m.Linear_Q, q, batch_size),
                   key   |-> SplitHeads(m, m.Linear_K, k, batch_size),
                   value |-> SplitHeads(m, m.Linear_V, v, batch_size),
                   mask  |-> IF mask.shape # NoMask THEN Repeat3(mask, m.n_heads)
                             ELSE mask]
    IN  Eager1(locals, LAMBDA l :
          Eager1(ScaledDotProductAttention_forward(sdp, l.query, l.key, l.value,
                                                   l.mask, drop),
                 LAMBDA r :
                    [ok |-> TRUE,
                     out |-> UnmergeHeads(m, r.context, batch_size),
                     attn |-> r.attn,
                     query |-> l.query, key |-> l.key, value |-> l.value,
                     mask |-> l.mask, context |-> r.context]))

NewMultiHeadAttentionWeights ==
    /\ blk.kind = "none"
    /\ \E d_model \in 1..MaxVModel, n_heads \in 0..MaxVHeads :
        /\ cfg' = [kind |-> "MultiHeadAttention",
                   d_model |-> d_model, n_heads |-> n_heads]
        /\ blk' = MultiHeadAttention_new(d_model, n_heads, inp.seed)
    /\ op' = "new"
    /\ UNCHANGED <<inp, arg, ret>>

\* q, k and v are [B, Lq or Lk, d_model]; the mask is none or [B, Lq, Lk].
MultiHeadAttentionForward ==
    /\ blk.ok /\ blk.kind = "MultiHeadAttention"
    /\ \E dseed \in DropSeeds(blk.training) :
        /\ arg' = [kind |-> "MultiHeadAttention", training |-> blk.training,
                   m |-> blk,
                   q |-> Ramp(<<inp.B, inp.Lq, blk.d_model>>, inp.seed, 0),
                   k |-> Ramp(<<inp.B, inp.Lk, blk.d_model>>, inp.seed, 1),
                   v |-> Ramp(<<inp.B, inp.Lk, blk.d_model>>, inp.seed, 2),
                   mask |-> MaskTensor(<<inp.B, inp.Lq, inp.Lk>>, inp.mseed),
                   drop |-> BitTensor(<<inp.B * blk.n_heads, inp.Lq, inp.Lk>>,
                                      dseed, DropBits)]
        /\ ret' = MultiHeadAttention_forward(blk, arg'.q, arg'.k, arg'.v,
                                             arg'.mask, arg'.drop)
    /\ op' = "forward"
    /\ UNCHANGED <<inp, cfg, blk>>

NextMultiHeadAttention ==
    \/ NewMultiHeadAttentionWeights
    \/ MultiHeadAttentionForward
    \/ Train
    \/ Eval

\* The runs of SpecSDPA and of SpecMultiHeadAttention draw the same inputs.
SpecMultiHeadAttention == InitSDPA /\ [][NextMultiHeadAttention]_vars

\* t[b : b + 1] along the first axis
Select(t, b) ==
    MkTensor(<<1>> \o Tail(t.shape), LAMBDA idx : At(t, <<b>> \o Tail(idx)))

\* A returned call of MultiHeadAttention.forward.
MultiHeadCall == arg.kind = "MultiHeadAttention" /\ ret.ok /\ op = "forward"

Batches == 0..(arg.v.shape[1] - 1)
Heads == 0..(arg.m.n_heads - 1)
HeadFeatures == 0..(arg.m.attn_dim - 1)
MergedRow(h, b) == h * arg.v.shape[1] + b

\* merged holds, in merged row h*B+b, head h's slice of batch element b of
\* the projection lin(x).
HeadSliceInMergedRow(merged, lin, x) ==
    LET proj == Linear(lin, x)
    IN  \A b \in Batches, h \in Heads, d \in HeadFeatures :
          \A l \in 0..(x.shape[2] - 1) :
             At(merged, <<MergedRow(h, b), l, d>>)
               = At(proj, <<b, l, h * arg.m.attn_dim + d>>)

\* The mask applied to merged row h*B+b is the caller's mask of batch
\* element b.
MaskOfMergedRow ==
    IF arg.mask.shape = NoMask THEN ret.mask.shape = NoMask
    ELSE /\ ret.mask.shape = <<arg.v.shape[1] * arg.m.n_heads,
                               arg.q.shape[2], arg.k.shape[2]>>
         /\ \A b \in Batches, h \in Heads :
               Select(ret.mask, MergedRow(h, b)) = Select(arg.mask, b)

\* The same block run on one merged row alone.
AttentionOfMergedRow(r) ==
    ScaledDotProductAttention_forward(
        [arg.m.scaled_dot_attn EXCEPT !.training = arg.training],
        Select(ret.query, r), Select(ret.key, r), Select(ret.value, r),
        IF ret.mask.shape = NoMask THEN ret.mask ELSE Select(ret.mask, r),
        Select(arg.drop, r))

\* Features [h*attn_dim, (h+1)*attn_dim) of output batch element b are the
\* attention result of merged row h*B+b.
ContextOfMergedRow ==
    \A b \in Batches, h \in Heads :
       LET alone == AttentionOfMergedRow(MergedRow(h, b)).context
       IN  \A l \in 0..(arg.q.shape[2] - 1), d \in HeadFeatures :
              At(ret.out, <<b, l, h * arg.m.attn_dim + d>>) = At(alone, <<0, l, d>>)

\* The dropout pattern of the heads of batch element b.
DropOfBatch(b) ==
    MkTensor(<<arg.m.n_heads, arg.q.shape[2], arg.k.shape[2]>>,
             LAMBDA idx : At(arg.drop, <<MergedRow(idx[1], b), idx[2], idx[3]>>))

\* Output batch element b is what the block returns for batch element b
\* alone: no output element combines data of two batch elements.
BatchElementsApart ==
    \A b \in Batches :
       Select(ret.out, b)
         = MultiHeadAttention_forward(
              arg.m, Select(arg.q, b), Select(arg.k, b), Select(arg.v, b),
              IF arg.mask.shape = NoMask THEN arg.mask ELSE Select(arg.mask, b),
              DropOfBatch(b)).out

\* ------------------------------------------------------------------------
\* C10: in MultiHeadAttention.forward the head axis is merged into and
\* un-merged from the batch axis consistently: merged row h*B+b of query,
\* key and value holds head h's slice of batch element b, the replicated
\* mask of merged row h*B+b is the caller's mask of batch element b, the
\* context features [h*attn_dim, (h+1)*attn_dim) of output batch element b
\* are the attention result of merged row h*B+b, and no output element
\* combines data of two batch elements.
\* ------------------------------------------------------------------------
C10_HeadsMergedConsistently ==
    MultiHeadCall =>
        /\ HeadSliceInMergedRow(ret.query, arg.m.Linear_Q, arg.q)
        /\ HeadSliceInMergedRow(ret.key, arg.m.Linear_K, arg.k)
        /\ HeadSliceInMergedRow(ret.value, arg.m.Linear_V, arg.v)
        /\ MaskOfMergedRow
        /\ ContextOfMergedRow
        /\ BatchElementsApart

C10_Witness ==
    /\ MultiHeadCall
    /\ arg.v.shape[1] > 1 /\ arg.m.n_heads > 1 /\ arg.m.attn_dim > 1
    /\ arg.q.shape[2] > 1 /\ arg.k.shape[2] > 1
    /\ arg.mask.shape # NoMask
    /\ Select(arg.mask, 0) # Select(arg.mask, 1)
    /\ Select(ret.out, 0) # Select(ret.out, 1)
    /\ Select(ret.query, MergedRow(0, 1)) # Select(ret.query, MergedRow(1, 0))
    /\ \E i \in DOMAIN ret.out.data : ~ret.out.data[i].nan /\ ret.out.data[i].v # 0
    /\ C10_HeadsMergedConsistently

\* ------------------------------------------------------------------------
\* ChannelGate, value layer.
\* ------------------------------------------------------------------------
\* The H*W entries of channel c of batch element b of a [B, C, H, W] tensor.
PlaneOf(x, b, c) ==
    [k \in 1..(x.shape[3] * x.shape[4]) |->
        At(x, <<b, c, (k - 1) \div x.shape[4], (k - 1) % x.shape[4]>>)]

Range(f) == {f[k] : k \in DOMAIN f}

\* F.avg_pool2d, F.max_pool2d, F.lp_pool2d (norm 2) over the whole plane,
\* and logsumexp_2d.
PoolOf(pool_type, vals) ==
    IF pool_type = "avg" THEN Sum(vals) \div Len(vals)
    ELSE IF pool_type = "max" THEN SetMax(Range(vals))
    ELSE IF pool_type = "lp" THEN ISqrt(Sum([k \in DOMAIN vals |-> vals[k] * vals[k]]))
    ELSE Eager1(SetMax(Range(vals)), LAMBDA top :
            top + Log(Sum([k \in DOMAIN vals |-> ExpNeg(top - vals[k])])))

Pooled(pool_type, input) ==
    Eager1(input, LAMBDA x :
        MkTensor(Pooled_shape(pool_type, x.shape),
                 LAMBDA idx : PoolOf(pool_type, PlaneOf(x, idx[1], idx[2]))))

\* Flatten.forward
Flatten(x) == View(x, <<x.shape[1], -1>>)

\* nn.ReLU
ReLU(input) ==
    Eager1(input, LAMBDA x : MkTensor(x.shape, LAMBDA idx : Max2(0, At(x, idx))))

\* self.mlp: Flatten, Linear, ReLU, Linear
Mlp(mlp, x) == Linear(mlp[2], ReLU(Linear(mlp[1], Flatten(x))))

\* a + b of tensors of one shape
Add(x, y) ==
    Eager2(x, y, LAMBDA a, b :
        MkTensor(a.shape, LAMBDA idx : At(a, idx) + At(b, idx)))

\* channel_att_sum and channel_att_raw while they are None or unbound.
NoTensor == [shape |-> NoAttn, data |-> <<>>]

\* The loop of ChannelGate.forward over pool_types[i..], with
\* channel_att_sum and channel_att_raw as the rounds before left them.
RECURSIVE ChannelAtt(_, _, _, _, _)
ChannelAtt(m, x, i, sum, raw) ==
    IF i > Len(m.pool_types) THEN sum
    ELSE Eager1(IF m.pool_types[i] \in PoolKinds
                THEN Mlp(m.mlp, Pooled(m.pool_types[i], x))
                ELSE raw,
                LAMBDA channel_att_raw :
                   ChannelAtt(m, x, i + 1,
                              IF sum.shape = NoAttn THEN channel_att_raw
                              ELSE Add(sum, channel_att_raw),
                              channel_att_raw))

\* x * scale with scale [B, C] expanded over the plane
ScaleChannels(input, gate) ==
    Eager2(input, gate, LAMBDA x, scale :
        MkTensor(x.shape,
                 LAMBDA idx : (At(x, idx) * At(scale, <<idx[1], idx[2]>>)) \div Scale))

\* torch.sigmoid, entry by entry
SigmoidOf(input) ==
    Eager1(input, LAMBDA x : MkTensor(x.shape, LAMBDA idx : Sigmoid(At(x, idx))))

\* ChannelGate.forward.  Besides what the method returns (out) the result
\* keeps the local channel_att_sum as the loop left it.
ChannelGate_forward(m, x) ==
    IF IsErr(ChannelGate_shape(m, x.shape)) THEN Raise
    ELSE Eager1(ChannelAtt(m, x, 1, NoTensor, NoTensor), LAMBDA channel_att_sum :
            [ok  |-> TRUE,
             out |-> ScaleChannels(x, SigmoidOf(channel_att_sum)),
             channel_att_sum |-> channel_att_sum])

\* The two nn.Linear of self.mlp as the library initialises them: weight
\* and bias drawn at random.
ChannelGate_new(gate_channels, reduction_ratio, pool_types, seed, salt) ==
    LET m == ChannelGate_init(gate_channels, reduction_ratio, pool_types)
        Drawn(lin, k) ==
            [weight |-> Ramp(<<lin.out_features, lin.in_features>>, seed, salt + k),
             bias   |-> Ramp(<<lin.out_features>>, seed, salt + k + 1)] @@ lin
    IN  IF ~m.ok THEN m
        ELSE [m EXCEPT !.mlp = <<Drawn(m.mlp[1], 0), Drawn(m.mlp[2], 2)>>]

\* ------------------------------------------------------------------------
\* SpatialGate and CCBAM, value layer.  A forward of a block that holds a
\* BatchNorm2d yields, besides what it returns, the block as the call
\* leaves it (self).
\* ------------------------------------------------------------------------
Ones(shape) == MkTensor(shape, LAMBDA idx : Scale)

\* momentum = 0.01 as 1 / bn_momentum_den; eps = 1e-5 in units of
\* 1 / Scale^2 (the unit of a variance times Scale).
bn_momentum_den == 100
bn_eps == 10

\* nn.BatchNorm2d(num_features, eps=1e-5, momentum=0.01, affine=True)
BatchNorm2d_new(num_features) ==
    [num_features |-> num_features,
     weight |-> Ones(<<num_features>>),
     bias |-> Zeros(<<num_features>>),
     running_mean |-> Zeros(<<num_features>>),
     running_var |-> Ones(<<num_features>>),
     num_batches_tracked |-> 0]

\* The entries of channel c of a [B, C, H, W] tensor, over batch and plane.
ChannelOf(x, c) ==
    [k \in 1..(x.shape[1] * x.shape[3] * x.shape[4]) |->
        At(x, <<(k - 1) \div (x.shape[3] * x.shape[4]), c,
                ((k - 1) \div x.shape[4]) % x.shape[3], (k - 1) % x.shape[4]>>)]

\* Mean and biased variance of the entries vals.
MeanVar(vals) ==
    Eager1(Sum(vals) \div Len(vals), LAMBDA mean :
        [mean |-> mean,
         var  |-> (Sum([k \in DOMAIN vals |->
                          ((vals[k] - mean) * (vals[k] - mean)) \div Scale])
                     \div Len(vals)),
         n    |-> Len(vals)])

\* (x - mean) / sqrt(var + eps) * weight + bias
Normalised(v, mean, var, weight, bias) ==
    (((((v - mean) * Scale) \div ISqrt(var * Scale + bn_eps)) * weight) \div Scale)
      + bias

\* running <- (1 - momentum) * running + momentum * observed
Averaged(running, observed) ==
    (((bn_momentum_den - 1) * running) + observed) \div bn_momentum_den

\* A BatchNorm2d that updates its running statistics in evaluation mode too.
BatchNorm2d_alwaystracking(bn, input, training) ==
    Eager1(input, LAMBDA x :
      Eager1([c \in 1..bn.num_features |-> MeanVar(ChannelOf(x, c - 1))],
             LAMBDA stats :
                [ok   |-> TRUE,
                 self |-> [bn EXCEPT
                    !.num_batches_tracked = @ + 1,
                    !.running_mean = MkTensor(<<bn.num_features>>, LAMBDA idx :
                        Averaged(At(bn.running_mean, idx), stats[idx[1] + 1].mean)),
                    !.running_var = MkTensor(<<bn.num_features>>, LAMBDA idx :
                        Averaged(At(bn.running_var, idx), stats[idx[1] + 1].var))],
                 out  |-> MkTensor(x.shape, LAMBDA idx :
                    Normalised(At(x, idx),
                               At(bn.running_mean, <<idx[2]>>),
                               At(bn.running_var, <<idx[2]>>),
                               At(bn.weight, <<idx[2]>>), At(bn.bias, <<idx[2]>>)))]))

\* nn.BatchNorm2d.forward.  Training mode: num_batches_tracked is counted
\* first, then a batch of one value per channel is refused, then the batch
\* is normalised by its own statistics and the running statistics move
\* towards them (the variance unbiased, n / (n - 1)).  Evaluation mode: the
\* batch is normalised by the running statistics and nothing is written.
BatchNorm2d(bn, input, training) ==
    Eager1(input, LAMBDA x :
      IF ~training
      THEN [ok   |-> TRUE,
            self |-> bn,
            out  |-> MkTensor(x.shape, LAMBDA idx :
                        Normalised(At(x, idx),
                                   At(bn.running_mean, <<idx[2]>>),
                                   At(bn.running_var, <<idx[2]>>),
                                   At(bn.weight, <<idx[2]>>), At(bn.bias, <<idx[2]>>)))]
      ELSE IF IsErr(BatchNorm2dShape(bn, x.shape, training))
      THEN [ok |-> FALSE, self |-> [bn EXCEPT !.num_batches_tracked = @ + 1]]
      ELSE Eager1([c \in 1..bn.num_features |-> MeanVar(ChannelOf(x, c - 1))],
             LAMBDA stats :
                [ok   |-> TRUE,
                 self |-> [bn EXCEPT
                    !.num_batches_tracked = @ + 1,
                    !.running_mean = MkTensor(<<bn.num_features>>, LAMBDA idx :
                        Averaged(At(bn.running_mean, idx), stats[idx[1] + 1].mean)),
                    !.running_var = MkTensor(<<bn.num_features>>, LAMBDA idx :
                        Averaged(At(bn.running_var, idx),
                                 (stats[idx[1] + 1].var * stats[idx[1] + 1].n)
                                    \div (stats[idx[1] + 1].n - 1)))],
                 out  |-> MkTensor(x.shape, LAMBDA idx :
                    Normalised(At(x, idx),
                               stats[idx[2] + 1].mean, stats[idx[2] + 1].var,
                               At(bn.weight, <<idx[2]>>), At(bn.bias, <<idx[2]>>)))]))

\* BasicConv.forward: conv, then bn and relu where the block has them.
BasicConv_forward(bc, x, training) ==
    IF IsErr(Conv2dShape(bc.conv, x.shape)) THEN [ok |-> FALSE, self |-> bc]
    ELSE Eager1(IF bc.has_bn THEN BatchNorm2d(bc.bn, Conv2d(bc.conv, x), training)
                ELSE [ok |-> TRUE, self |-> bc.bn, out |-> Conv2d(bc.conv, x)],
                LAMBDA r :
                   IF ~r.ok THEN [ok |-> FALSE, self |-> [bc EXCEPT !.bn = r.self]]
                   ELSE [ok   |-> TRUE,
                         self |-> [bc EXCEPT !.bn = r.self],
                         out  |-> IF bc.relu THEN ReLU(r.out) ELSE r.out])

\* ChannelPool.forward: channel 0 is the maximum over the channels of x,
\* channel 1 their mean.
ChannelPool(input) ==
    Eager1(input, LAMBDA x :
        MkTensor(ChannelPool_shape(x.shape), LAMBDA idx :
            Eager1([c \in 1..x.shape[2] |-> At(x, <<idx[1], c - 1, idx[3], idx[4]>>)],
                   LAMBDA vals :
                      IF idx[2] = 0 THEN SetMax(Range(vals))
                      ELSE Sum(vals) \div Len(vals))))

\* x * scale with scale [B, 1, H, W] broadcast over the channels
ScalePlane(input, gate) ==
    Eager2(input, gate, LAMBDA x, scale :
        MkTensor(x.shape, LAMBDA idx :
            (At(x, idx) * At(scale, <<idx[1], 0, idx[3], idx[4]>>)) \div Scale))

SpatialGate_forward(m, x, training) ==
    IF IsErr(ChannelPool_shape(x.shape)) THEN [ok |-> FALSE, self |-> m]
    ELSE Eager1(BasicConv_forward(m.spatial, ChannelPool(x), training), LAMBDA r :
            IF ~r.ok THEN [ok |-> FALSE, self |-> [m EXCEPT !.spatial = r.self]]
            ELSE [ok   |-> TRUE,
                  self |-> [m EXCEPT !.spatial = r.self],
                  out  |-> ScalePlane(x, SigmoidOf(r.out))])

\* SpatialGate.__init__ with the convolution weight the run draws (the
\* convolution has no bias).
SpatialGate_new(seed, salt) ==
    LET m == SpatialGate_init
    IN  [m EXCEPT !.spatial =
            [@ EXCEPT !.conv = [weight |-> Ramp(<<@.out_channels, @.in_channels,
                                                  @.kernel_size, @.kernel_size>>,
                                                seed, salt),
                                bias   |-> NoMaskT] @@ @,
                      !.bn = BatchNorm2d_new(@.num_features)]]

\* x[..., p] of a 5-d tensor
PlaneAt(input, p) ==
    Eager1(input, LAMBDA x :
        MkTensor(SubSeq(x.shape, 1, 4), LAMBDA idx : At(x, idx \o <<p>>)))

\* torch.stack([a, b], dim=-1)
Stack(first, second) ==
    Eager2(first, second, LAMBDA a, b :
        MkTensor(a.shape \o <<2>>, LAMBDA idx :
            At(IF idx[5] = 0 THEN a ELSE b, SubSeq(idx, 1, 4))))

\* A CCBAM whose imaginary plane is read from x[..., 0].
CCBAM_planes_sameplane(x) == [real |-> PlaneAt(x, 0), imag |-> PlaneAt(x, 0)]

\* real = x[..., 0]; imag = x[..., 1]
CCBAM_planes(x) == [real |-> PlaneAt(x, 0), imag |-> PlaneAt(x, 1)]

\* One plane through its channel gate and, unless no_spatial, its spatial
\* gate.  self is the spatial gate after the call.
GatePlane(cg, sg, no_spatial, plane, training) ==
    Eager1(ChannelGate_forward(cg, plane), LAMBDA c :
        IF ~c.ok THEN [ok |-> FALSE, self |-> sg]
        ELSE IF no_spatial THEN [ok |-> TRUE, self |-> sg, out |-> c.out]
        ELSE SpatialGate_forward(sg, c.out, training))

\* CCBAM.forward: the real plane first, then the imaginary one.
CCBAM_forward(m, x, training) ==
    IF IsErr(x.shape) \/ Len(x.shape) # 5 \/ x.shape[5] < 2 THEN [ok |-> FALSE, self |-> m]
    ELSE
    Eager1(CCBAM_planes(x), LAMBDA p :
      Eager1(GatePlane(m.ChannelGate_real, m.SpatialGate_real, m.no_spatial,
                       p.real, training),
             LAMBDA re :
        IF ~re.ok THEN [ok |-> FALSE, self |-> [m EXCEPT !.SpatialGate_real = re.self]]
        ELSE
        Eager1(GatePlane(m.ChannelGate_imag, m.SpatialGate_imag, m.no_spatial,
                         p.imag, training),
               LAMBDA im :
          IF ~im.ok
          THEN [ok |-> FALSE,
                self |-> [m EXCEPT !.SpatialGate_real = re.self,
                                   !.SpatialGate_imag = im.self]]
          ELSE [ok   |-> TRUE,
                self |-> [m EXCEPT !.SpatialGate_real = re.self,
                                   !.SpatialGate_imag = im.self],
                out  |-> Stack(re.out, im.out)])))

\* CCBAM.__init__ with the weights the run draws: the gates of the two
\* planes are drawn independently.
CCBAM_new(gate_channels, reduction_ratio, pool_types, no_spatial, seed) ==
    LET m == CCBAM_init(gate_channels, reduction_ratio, pool_types, no_spatial)
    IN  IF ~m.ok THEN m
        ELSE [m EXCEPT
               !.ChannelGate_real =
                   ChannelGate_new(gate_channels, reduction_ratio, pool_types, seed, 3),
               !.ChannelGate_imag =
                   ChannelGate_new(gate_channels, reduction_ratio, pool_types, seed, 8),
               !.SpatialGate_real =
                   IF no_spatial THEN NoModule ELSE SpatialGate_new(seed, 13),
               !.SpatialGate_imag =
                   IF no_spatial THEN NoModule ELSE SpatialGate_new(seed, 14)]

\* ---- CCBAM, value layer: the state machine ---------------------------------
\* The pool_types a CCBAM is built with: the default and the two other kinds.
CCBAMPoolTypes == {<<"avg", "max">>, <<"lp">>, <<"lse">>}

NewCCBAMWeights ==
    /\ blk.kind = "none"
    /\ \E gate_channels \in 1..MaxVGate, reduction_ratio \in 0..MaxRatio,
          pool_types \in CCBAMPoolTypes, no_spatial \in BOOLEAN :
        /\ cfg' = [kind |-> "CCBAM", gate_channels |-> gate_channels,
                   reduction_ratio |-> reduction_ratio, calls |-> 0]
        /\ blk' = CCBAM_new(gate_channels, reduction_ratio, pool_types,
                            no_spatial, inp.seed)
    /\ op' = "new"
    /\ UNCHANGED <<inp, arg, ret>>

\* The complex feature map of a call, and three more that differ from it in
\* one plane only: another imaginary plane, another real plane, an
\* imaginary plane of zeros.
CCBAMInputs(shape, seed) ==
    Eager2(Ramp(shape, seed, 0), Ramp(shape, seed, 21), LAMBDA real, imag :
        [x            |-> Stack(real, imag),
         imag_changed |-> Stack(real, Ramp(shape, seed, 22)),
         real_changed |-> Stack(Ramp(shape, seed, 24), imag),
         imag_zero    |-> Stack(real, Zeros(shape))])

\* CCBAM.forward on x.  The block is left as the call on x leaves it; ret
\* also holds what the same block, in the same state, returns for the three
\* other feature maps.  cfg.calls counts the calls.
CCBAMForward ==
    /\ blk.ok /\ blk.kind = "CCBAM"
    /\ cfg.calls < MaxCalls
    /\ arg' = [kind |-> "CCBAM", training |-> blk.training, m |-> blk]
               @@ CCBAMInputs(<<inp.B, blk.ChannelGate_real.gate_channels,
                                inp.H, inp.W>>, inp.seed)
    /\ ret' = CCBAM_forward(blk, arg'.x, blk.training)
               @@ [imag_changed |-> CCBAM_forward(blk, arg'.imag_changed, blk.training),
                   real_changed |-> CCBAM_forward(blk, arg'.real_changed, blk.training),
                   imag_zero    |-> CCBAM_forward(blk, arg'.imag_zero, blk.training)]
    /\ blk' = [ret'.self EXCEPT !.training = blk.training]
    /\ cfg' = [cfg EXCEPT !.calls = @ + 1]
    /\ op' = "forward"
    /\ UNCHANGED inp

NextCCBAM ==
    \/ NewCCBAMWeights
    \/ CCBAMForward
    \/ Train
    \/ Eval

\* The runs of SpecCCBAM draw a feature map as those of SpecSelf_Attn do.
SpecCCBAM == InitSelf_Attn /\ [][NextCCBAM]_vars

\* A returned call of CCBAM.forward.
CCBAMCall == arg.kind = "CCBAM" /\ op = "forward" /\ ret.ok

\* The output plane p of the call is what the gates of that plane alone
\* make of input plane p: plane 0 the real one, plane 1 the imaginary one.
PlanesStackedInOrder ==
    /\ PlaneAt(ret.out, 0)
         = GatePlane(arg.m.ChannelGate_real, arg.m.SpatialGate_real,
                     arg.m.no_spatial, PlaneAt(arg.x, 0), arg.training).out
    /\ PlaneAt(ret.out, 1)
         = GatePlane(arg.m.ChannelGate_imag, arg.m.SpatialGate_imag,
                     arg.m.no_spatial, PlaneAt(arg.x, 1), arg.training).out

\* ------------------------------------------------------------------------
\* C8: CCBAM never mixes the two planes: two inputs that agree on one plane
\* give identical output on that plane whatever the other plane holds, an
\* all-zero imaginary plane yields an all-zero imaginary output for every
\* real plane, and the output stacks the planes in (real, imaginary) order.
\* ------------------------------------------------------------------------
C8_PlanesNeverMixed ==
    CCBAMCall =>
        /\ ret.imag_changed.ok
        /\ PlaneAt(arg.imag_changed, 0) = PlaneAt(arg.x, 0)
        /\ PlaneAt(ret.imag_changed.out, 0) = PlaneAt(ret.out, 0)
        /\ ret.imag_changed.self.SpatialGate_real = ret.self.SpatialGate_real
        /\ ret.real_changed.ok
        /\ PlaneAt(arg.real_changed, 1) = PlaneAt(arg.x, 1)
        /\ PlaneAt(ret.real_changed.out, 1) = PlaneAt(ret.out, 1)
        /\ ret.real_changed.self.SpatialGate_imag = ret.self.SpatialGate_imag
        /\ ret.imag_zero.ok
        /\ PlaneAt(ret.imag_zero.out, 1) = Zeros(SubSeq(arg.x.shape, 1, 4))
        /\ PlaneAt(ret.imag_zero.out, 0) = PlaneAt(ret.out, 0)
        /\ PlanesStackedInOrder

C8_Witness ==
    /\ CCBAMCall
    /\ ~arg.m.no_spatial
    /\ arg.x.shape[1] > 1 /\ arg.x.shape[2] > 1 /\ arg.x.shape[3] > 1
    /\ PlaneAt(arg.imag_changed, 1) # PlaneAt(arg.x, 1)
    /\ PlaneAt(ret.imag_changed.out, 1) # PlaneAt(ret.out, 1)
    /\ PlaneAt(arg.real_changed, 0) # PlaneAt(arg.x, 0)
    /\ PlaneAt(ret.real_changed.out, 0) # PlaneAt(ret.out, 0)
    /\ PlaneAt(ret.out, 0) # PlaneAt(arg.x, 0)
    /\ PlaneAt(ret.out, 1) # Zeros(SubSeq(arg.x.shape, 1, 4))
    /\ PlaneAt(ret.out, 0) # PlaneAt(ret.out, 1)
    /\ C8_PlanesNeverMixed

\* ---- ChannelGate and SpatialGate, value layer: the state machines ----------
\* The pool_types a ChannelGate is built with: __init__ stores any list, of
\* any strings ("other" stands for a string that is none of the four kinds
\* forward knows), in any order, with repetitions, the empty list too.
ChannelGatePoolTypes ==
    UNION {[1..n -> PoolKinds \cup {"other"}] : n \in 0..MaxPools}

NewChannelGateWeights ==
    /\ blk.kind = "none"
    /\ \E gate_channels \in 1..MaxVGate, reduction_ratio \in 0..MaxRatio,
          pool_types \in ChannelGatePoolTypes :
        /\ cfg' = [kind |-> "ChannelGate", gate_channels |-> gate_channels,
                   reduction_ratio |-> reduction_ratio, calls |-> 0]
        /\ blk' = ChannelGate_new(gate_channels, reduction_ratio, pool_types,
                                  inp.seed, 3)
    /\ op' = "new"
    /\ UNCHANGED <<inp, arg, ret>>

ChannelGateForward ==
    /\ blk.ok /\ blk.kind = "ChannelGate"
    /\ arg' = [kind |-> "ChannelGate", training |-> blk.training, m |-> blk,
               x |-> Ramp(<<inp.B, blk.gate_channels, inp.H, inp.W>>, inp.seed, 0)]
    /\ ret' = ChannelGate_forward(blk, arg'.x)
    /\ op' = "forward"
    /\ UNCHANGED <<inp, cfg, blk>>

\* A SpatialGate takes a feature map of any number of channels.
NewSpatialGateWeights ==
    /\ blk.kind = "none"
    /\ \E channels \in 1..MaxVGate :
        cfg' = [kind |-> "SpatialGate", channels |-> channels, calls |-> 0]
    /\ blk' = SpatialGate_new(inp.seed, 13)
    /\ op' = "new"
    /\ UNCHANGED <<inp, arg, ret>>

\* SpatialGate.forward; the block is left as the call leaves it.
SpatialGateForward ==
    /\ blk.ok /\ blk.kind = "SpatialGate"
    /\ cfg.calls < MaxCalls
    /\ arg' = [kind |-> "SpatialGate", training |-> blk.training, m |-> blk,
               x |-> Ramp(<<inp.B, cfg.channels, inp.H, inp.W>>, inp.seed, 0)]
    /\ ret' = SpatialGate_forward(blk, arg'.x, blk.training)
    /\ blk' = [ret'.self EXCEPT !.training = blk.training]
    /\ cfg' = [cfg EXCEPT !.calls = @ + 1]
    /\ op' = "forward"
    /\ UNCHANGED inp

\* ---- the six attention blocks together ------------------------------------
\* A run draws either the sequences of the attention blocks of the
\* transformer or the feature map of the gates.
SequenceRun == "Lq" \in DOMAIN inp

InitBlocks == InitSDPA \/ InitSelf_Attn

NextBlocks ==
    \/ SequenceRun /\ NewScaledDotProductAttention
    \/ SequenceRun /\ NewMultiHeadAttentionWeights
    \/ ~SequenceRun /\ NewChannelGateWeights
    \/ ~SequenceRun /\ NewSpatialGateWeights
    \/ ~SequenceRun /\ NewCCBAMWeights
    \/ ~SequenceRun /\ NewSelf_AttnWeights
    \/ ScaledDotProductAttentionForward
    \/ MultiHeadAttentionForward
    \/ ChannelGateForward
    \/ SpatialGateForward
    \/ CCBAMForward
    \/ Self_AttnForward
    \/ Self_AttnOptimizerStep
    \/ Train
    \/ Eval

SpecBlocks == InitBlocks /\ [][NextBlocks]_vars

\* The BatchNorm2d of a BasicConv with its buffers (running_mean,
\* running_var, num_batches_tracked) set back to those of a new one: what is
\* left are its parameters.
SpatialGate_parameters(sg) ==
    [sg EXCEPT !.spatial.bn =
        [@ EXCEPT !.running_mean = Zeros(<<sg.spatial.bn.num_features>>),
                  !.running_var = Ones(<<sg.spatial.bn.num_features>>),
                  !.num_batches_tracked = 0]]

\* A block without the buffers of the BatchNorm2d it holds, if it holds any.
Parameters(b) ==
    IF b.kind = "SpatialGate" THEN SpatialGate_parameters(b)
    ELSE IF b.kind = "CCBAM" /\ ~b.no_spatial
    THEN [b EXCEPT !.SpatialGate_real = SpatialGate_parameters(@),
                   !.SpatialGate_imag = SpatialGate_parameters(@)]
    ELSE b

HoldsBatchNorm(b) ==
    b.kind = "SpatialGate" \/ (b.kind = "CCBAM" /\ ~b.no_spatial)

\* ------------------------------------------------------------------------
\* C9 as stated: a forward call of any attention block, in training mode as
\* in evaluation mode, leaves every piece of state owned by the block
\* unchanged and leaves its input tensors and mask unchanged.
\* ------------------------------------------------------------------------
C9_ForwardLeavesBlockUnchanged ==
    [][op' = "forward" => (blk' = blk /\ inp' = inp)]_vars

\* ------------------------------------------------------------------------
\* C9, amended: a forward call of any attention block leaves the input
\* tensors, the mask, the mode and every parameter of the block unchanged;
\* in evaluation mode it leaves the whole block unchanged; in training mode
\* the only state it writes is the buffers of the BatchNorm2d of a
\* SpatialGate (a SpatialGate itself, or the two of a CCBAM built with
\* no_spatial = False), so a block that holds no BatchNorm2d is unchanged
\* in both modes.  Parameters are written by the optimizer step only.
\* ------------------------------------------------------------------------
C9_ForwardWritesOnlyBatchNormBuffers ==
    [][/\ op' = "forward" =>
            /\ inp' = inp
            /\ Parameters(blk') = Parameters(blk)
            /\ ~blk.training => blk' = blk
            /\ ~HoldsBatchNorm(blk) => blk' = blk
       /\ (blk.ok /\ blk'.ok
             /\ [Parameters(blk') EXCEPT !.training = blk.training] # Parameters(blk))
            => op' = "step"]_vars

\* A training-mode forward of a block that holds a BatchNorm2d has returned
\* and has moved the buffers; the parameters are those before the call.
C9_Witness ==
    /\ op = "forward"
    /\ arg.kind \in {"SpatialGate", "CCBAM"}
    /\ arg.training
    /\ ret.ok
    /\ blk # arg.m
    /\ Parameters(blk) = Parameters(arg.m)

\* The same in evaluation mode: the call returned and wrote nothing.
EvalForwardOfBatchNormBlock ==
    /\ op = "forward"
    /\ arg.kind \in {"SpatialGate", "CCBAM"}
    /\ HoldsBatchNorm(blk)
    /\ ~arg.training
    /\ ret.ok
    /\ blk = arg.m

\* ---- ChannelGate alone ------------------------------------------------------
NextChannelGate ==
    \/ NewChannelGateWeights
    \/ ChannelGateForward
    \/ Train
    \/ Eval

\* The runs of SpecChannelGate draw a feature map as those of SpecSelf_Attn do.
SpecChannelGate == InitSelf_Attn /\ [][NextChannelGate]_vars

\* A call of ChannelGate.forward (value layer) and the list it loops over.
ChannelGateCall == arg.kind = "ChannelGate" /\ op = "forward" /\ "m" \in DOMAIN arg

Entries == 1..Len(arg.m.pool_types)

\* The raw signal of entry i by itself: the shared mlp applied to the
\* feature map pooled by the kind entry i names.
OwnSignal(i) == Mlp(arg.m.mlp, Pooled(arg.m.pool_types[i], arg.x))

\* ret.channel_att_sum is, entry by entry, the sum of the own signals.
SumOfOwnSignals ==
    Eager1([i \in Entries |-> OwnSignal(i)], LAMBDA own :
        /\ ret.channel_att_sum.shape = <<arg.x.shape[1], arg.x.shape[2]>>
        /\ \A b \in 0..(arg.x.shape[1] - 1), c \in 0..(arg.x.shape[2] - 1) :
              At(ret.channel_att_sum, <<b, c>>)
                 = Sum([i \in Entries |-> At(own[i], <<b, c>>)]))

\* ret.out is x times the sigmoid of channel_att_sum, the same factor over
\* the whole plane of a channel.
GateIsSigmoidOfSum ==
    /\ ret.out.shape = arg.x.shape
    /\ \A k \in DOMAIN arg.x.data :
          LET idx == Unflat(k - 1, arg.x.shape)
          IN  ret.out.data[k]
                 = (arg.x.data[k]
                      * Sigmoid(At(ret.channel_att_sum, <<idx[1], idx[2]>>))) \div Scale

\* ------------------------------------------------------------------------
\* C11: for every configured pool_types list, the pre-sigmoid signal of
\* ChannelGate.forward is the elementwise sum over the entries of the list
\* of the shared mlp applied to that entry's own pooled vector: every entry
\* contributes once, through its own pooling kind (avg, max, lp, lse), none
\* through another entry's pooled value, and the gate multiplied into the
\* input is the sigmoid of that sum broadcast over H and W.
\* ------------------------------------------------------------------------
C11_GateSumsOwnSignals ==
    (ChannelGateCall /\ ret.ok) =>
        /\ \A i \in Entries : arg.m.pool_types[i] \in PoolKinds
        /\ SumOfOwnSignals
        /\ GateIsSigmoidOfSum

\* The same where every entry of the list is one of the four kinds.
GateSumsOwnSignalsOfKnownKinds ==
    (ChannelGateCall /\ \A i \in Entries : arg.m.pool_types[i] \in PoolKinds) =>
        /\ ret.ok <=> (Entries # {})
        /\ ret.ok => (SumOfOwnSignals /\ GateIsSigmoidOfSum)

\* An entry that names no kind adds the signal of the entry before it once
\* more; with no entry before it the call raises.
UnknownKindRepeatsPreviousSignal ==
    (ChannelGateCall /\ Entries # {}) =>
        /\ ret.ok <=> arg.m.pool_types[1] \in PoolKinds
        /\ (ret.ok /\ Len(arg.m.pool_types) = 2
              /\ arg.m.pool_types[2] \notin PoolKinds)
             => \A b \in 0..(arg.x.shape[1] - 1), c \in 0..(arg.x.shape[2] - 1) :
                   At(ret.channel_att_sum, <<b, c>>) = 2 * At(OwnSignal(1), <<b, c>>)

\* A returned call on a list of two different known kinds whose own signals
\* differ and are not zero, on a plane of more than one entry.
TwoKindsSummed ==
    /\ ChannelGateCall /\ ret.ok
    /\ Len(arg.m.pool_types) = 2
    /\ \A i \in Entries : arg.m.pool_types[i] \in PoolKinds
    /\ arg.m.pool_types[1] # arg.m.pool_types[2]
    /\ OwnSignal(1) # OwnSignal(2)
    /\ \E k \in DOMAIN OwnSignal(1).data :
          OwnSignal(1).data[k] # 0 /\ OwnSignal(2).data[k] # 0
    /\ arg.x.shape[3] * arg.x.shape[4] > 1
    /\ ret.out # arg.x
    /\ GateSumsOwnSignalsOfKnownKinds

\* A returned call on a list whose second entry names no kind.
UnknownKindCallReturned ==
    /\ ChannelGateCall /\ ret.ok
    /\ Len(arg.m.pool_types) = 2
    /\ arg.m.pool_types[2] \notin PoolKinds
    /\ \E k \in DOMAIN OwnSignal(1).data : OwnSignal(1).data[k] # 0

\* ------------------------------------------------------------------------
\* The training loop of main_worker (src/main.py, lines 251-271).
\*   cfg  args: start_epoch and epochs
\*   blk  the locals of main_worker (epoch, PESQ, best_PESQ), the mode of
\*        the model, the position pc in the body of the loop, the files
\*        under saved_models/ (model_<n>.pth as n), and what the run did so
\*        far: validated, the PESQ of the epochs of the run in order, and
\*        log, the calls completed, each with its epoch
\*   arg, ret  the last call of train or validate and what it returned
\* A PESQ is counted in half points.
\* ------------------------------------------------------------------------
\* What validate may return.
Scores == (0 - MaxPESQ)..MaxPESQ

\* best_PESQ = -1e10: a float below every score, beyond the integers of the
\* model, which hold it as the least value of all.
best_PESQ_initial == -2000000000

\* best_PESQ <= PESQ where the code has best_PESQ < PESQ
Better_orequal(best_PESQ, PESQ) == best_PESQ <= PESQ

\* if best_PESQ < PESQ
Better(best_PESQ, PESQ) == best_PESQ < PESQ

\* for epoch in range(args.start_epoch, args.epochs): the position after the
\* body of epoch - 1, or at the start of the loop.
LoopAt(epoch, epochs) == IF epoch < epochs THEN "train" ELSE "done"

InitMainWorker ==
    /\ inp \in [start_epoch : 0..MaxStartEpoch, epochs : 0..MaxEpochs]
    /\ cfg = NoCall
    /\ blk = NoBlock
    /\ arg = NoCall
    /\ ret = NoCall
    /\ op = "init"

\* main_worker up to the loop: best_PESQ = -1e10
MainWorker ==
    /\ blk.kind = "none"
    /\ cfg' = [kind |-> "main_worker", start_epoch |-> inp.start_epoch,
               epochs |-> inp.epochs]
    /\ blk' = [kind |-> "main_worker", ok |-> TRUE, training |-> TRUE,
               pc |-> LoopAt(inp.start_epoch, inp.epochs),
               epoch |-> inp.start_epoch,
               PESQ |-> best_PESQ_initial,
               best_PESQ |-> best_PESQ_initial,
               saved_models |-> {},
               validated |-> <<>>,
               log |-> <<>>]
    /\ op' = "main_worker"
    /\ UNCHANGED <<inp, arg, ret>>

\* train(...): model.train(), the batches, scheduler.step()
TrainEpoch ==
    /\ blk.kind = "main_worker" /\ blk.pc = "train"
    /\ arg' = [kind |-> "train", epoch |-> blk.epoch]
    /\ ret' = NoCall
    /\ blk' = [blk EXCEPT !.pc = "validate", !.training = TRUE,
                          !.log = Append(@, <<"train", blk.epoch>>)]
    /\ op' = "train"
    /\ UNCHANGED <<inp, cfg>>

\* PESQ, loss = validate(...): model.eval(), then the score of the epoch
ValidateEpoch ==
    /\ blk.kind = "main_worker" /\ blk.pc = "validate"
    /\ \E PESQ \in Scores :
        /\ ret' = [kind |-> "validate", PESQ |-> PESQ]
        /\ blk' = [blk EXCEPT !.pc = "compare", !.training = FALSE,
                              !.PESQ = PESQ,
                              !.validated = Append(@, PESQ),
                              !.log = Append(@, <<"validate", blk.epoch>>)]
    /\ arg' = [kind |-> "validate", epoch |-> blk.epoch]
    /\ op' = "validate"
    /\ UNCHANGED <<inp, cfg>>

\* Lines 266-271, then the next round of the loop.
SaveIfBetter ==
    /\ blk.kind = "main_worker" /\ blk.pc = "compare"
    /\ blk' = IF Better(blk.best_PESQ, blk.PESQ)
              THEN [blk EXCEPT !.saved_models = @ \cup {blk.epoch + 1},
                               !.best_PESQ = blk.PESQ,
                               !.log = Append(@, <<"save", blk.epoch>>),
                               !.epoch = @ + 1,
                               !.pc = LoopAt(blk.epoch + 1, cfg.epochs)]
              ELSE [blk EXCEPT !.epoch = @ + 1,
                               !.pc = LoopAt(blk.epoch + 1, cfg.epochs)]
    /\ op' = "compare"
    /\ UNCHANGED <<inp, cfg, arg, ret>>

NextMainWorker ==
    \/ MainWorker
    \/ TrainEpoch
    \/ ValidateEpoch
    \/ SaveIfBetter

SpecMainWorker == InitMainWorker /\ [][NextMainWorker]_vars

\* The epochs of the run whose body has completed, counted from 1, and
\* the epoch number of the i-th of them.
EpochsCompleted == 1..(blk.epoch - cfg.start_epoch)

EpochOf(i) == cfg.start_epoch + i - 1

\* The greatest of -1e10 and the PESQ of the first n epochs of the run.
MaxValidated(n) ==
    SetMax({best_PESQ_initial} \cup {blk.validated[i] : i \in 1..n})

\* The i-th epoch of the run validated a PESQ strictly greater than every
\* epoch of the run before it.
StrictlyBest(i) == \A j \in 1..(i - 1) : blk.validated[j] < blk.validated[i]

\* Every save in the log comes right after the validate of its epoch, which
\* comes after the train of that epoch.
SavedAfterTrainAndValidate ==
    \A k \in DOMAIN blk.log :
        blk.log[k][1] = "save" =>
            /\ k >= 3
            /\ blk.log[k - 1] = <<"validate", blk.log[k][2]>>
            /\ blk.log[k - 2] = <<"train", blk.log[k][2]>>

BestAndCheckpoints ==
    blk.kind = "main_worker" =>
        /\ blk.best_PESQ = MaxValidated(Cardinality(EpochsCompleted))
        /\ blk.saved_models = {EpochOf(i) + 1 : i \in {j \in EpochsCompleted : StrictlyBest(j)}}
        /\ blk.saved_models = {blk.log[k][2] + 1 :
                                  k \in {n \in DOMAIN blk.log : blk.log[n][1] = "save"}}
        /\ SavedAfterTrainAndValidate
        /\ blk.pc \in {"train", "done"} => Len(blk.validated) = Cardinality(EpochsCompleted)

\* ------------------------------------------------------------------------
\* C12: in the training loop of main_worker, for any sequence of per-epoch
\* validation PESQ scores, best_PESQ never decreases and after each epoch
\* equals the maximum PESQ validated so far in the run (starting from
\* -1e10); saved_models/model_<epoch+1>.pth is written at an epoch exactly
\* when that epoch's PESQ is strictly greater than the PESQ of every earlier
\* epoch of the run, and only after that epoch's train and validate steps
\* have completed.
\* ------------------------------------------------------------------------
C12_BestPESQAndCheckpoints ==
    /\ []BestAndCheckpoints
    /\ [][(blk.kind = "main_worker" /\ blk'.kind = "main_worker") =>
             /\ blk'.best_PESQ >= blk.best_PESQ
             /\ blk.saved_models \subseteq blk'.saved_models
             /\ (blk'.saved_models # blk.saved_models) =>
                   /\ op' = "compare"
                   /\ blk'.saved_models = blk.saved_models \cup {blk.epoch + 1}
                   /\ \A j \in 1..(Len(blk.validated) - 1) : blk.validated[j] < blk.PESQ]_vars

\* A run of three epochs that is over: the first PESQ is negative and is
\* saved, the second ties with it and is not, the third is greater and is
\* saved.
C12_Witness ==
    /\ blk.kind = "main_worker" /\ blk.pc = "done"
    /\ Len(blk.validated) = 3
    /\ blk.validated[1] < 0
    /\ blk.validated[2] = blk.validated[1]
    /\ blk.validated[3] > blk.validated[1]
    /\ blk.saved_models = {cfg.start_epoch + 1, cfg.start_epoch + 3}
    /\ blk.best_PESQ = blk.validated[3]
    /\ cfg.start_epoch > 0

====
